---- MODULE Spec2Model ----
(***************************************************************************)
(* The Objective-C object runtime of touchHLE as seen from the Foundation  *)
(* classes: NSObject (ns_object.rs), NSDate (ns_date.rs) and NSError       *)
(* (ns_error.rs).  The method bodies are translated from those files.  The *)
(* runtime primitives they call (crate::objc: the object table, reference  *)
(* counts, method lookup, autorelease pools) are not among the sources and *)
(* are modelled from the design document, sections 3 and 4.4.              *)
(*                                                                         *)
(* One action of the model is one message send (or host call) made by the  *)
(* guest program, together with every nested send its handler makes.  A    *)
(* handler is a function from environment to environment; the environment  *)
(* carries, besides the runtime's state, the log of the method bodies run  *)
(* and the value returned.  A panic aborts the host process: the state     *)
(* after it keeps err and nothing else.                                    *)
(***************************************************************************)
EXTENDS Integers, Sequences, FiniteSets, TLC

\* ---------------------------------------------------------------- bounds
\* Guest addresses at which objects can be placed.
MaxAddr == 2
\* References held on all objects together (the guest stops retaining there).
MaxRefs == 3
\* Depth of the autorelease pool stack.
MaxPools == 2
\* Objects pending in all pools together.
MaxPending == 2
\* Highest address of guest memory.
MaxMem == 10
\* Steps of the host clock.
MaxQuanta == 3
\* Pieces of a format string.
MaxItems == 2
\* Symbols a guest binary imports.
MaxImports == 2
\* Loads of the same binary.
MaxLoads == 2
\* Addresses for views and their layers.
MaxViewObjects == 6
\* References the guest's own code holds on one view.
MaxOwned == 1
\* Addresses for errors and the objects they hold.
MaxErrorObjects == 3
\* Settings that keep a view from taking touches (hidden, transparent,
\* closed to touches), over all views at a time.
MaxImpaired == 1

\* ------------------------------------------------------- class metadata
nil == 0
Addr == 1 .. MaxAddr
NoClass == "Nil"

\* Classes exported by the host, and the classes defined by the guest binary.
HostClasses ==
    {"NSObject", "NSDate", "NSError", "NSNumber", "UIResponder", "UIView", "CALayer",
     "NSString", "NSBundle", "NSFileManager"}
GuestClasses == {"Widget", "Knob"}
Classes == HostClasses \cup GuestClasses

\* @implementation X: Y headers.
HostSuperclass(c) ==
    CASE c = "NSObject" -> NoClass
      [] c = "NSDate" -> "NSObject"
      [] c = "NSError" -> "NSObject"
      [] c = "NSNumber" -> "NSObject"
      [] c = "UIResponder" -> "NSObject"
      [] c = "UIView" -> "UIResponder"
      [] c = "CALayer" -> "NSObject"
      [] c = "NSString" -> "NSObject"
      [] c = "NSBundle" -> "NSObject"
      [] c = "NSFileManager" -> "NSObject"

\* The guest's Widget derives from NSError and defines no method of its own;
\* its Knob derives from NSObject and has accessors.
GuestSuperclass(c) == IF c = "Widget" THEN "NSError" ELSE "NSObject"

Superclass(c) == IF c \in GuestClasses THEN GuestSuperclass(c) ELSE HostSuperclass(c)

\* Faulty "+" tables: NSDate without its allocWithZone:.
ClassMethods_noDateAlloc(c) ==
    CASE c = "NSObject" -> {"alloc", "allocWithZone:", "new", "class", "retain",
                            "release", "autorelease", "initialize",
                            "instancesRespondToSelector:",
                            "instanceMethodForSelector:"}
      [] c = "NSDate" -> {"date"}
      [] c = "NSError" -> {"allocWithZone:"}
      [] c = "UIView" -> {"allocWithZone:", "layerClass"}
      [] c = "CALayer" -> {"allocWithZone:", "layer"}
      [] c = "NSBundle" -> {"mainBundle", "preferredLocalizationsFromArray:"}
      [] c = "NSFileManager" -> {"defaultManager"}
      [] OTHER -> {}

\* "+" methods of each @implementation.
ClassMethods(c) ==
    CASE c = "NSObject" -> {"alloc", "allocWithZone:", "new", "class", "retain",
                            "release", "autorelease", "initialize",
                            "instancesRespondToSelector:",
                            "instanceMethodForSelector:"}
      [] c = "NSDate" -> {"allocWithZone:", "date"}
      [] c = "NSError" -> {"allocWithZone:"}
      [] c = "NSNumber" -> {"numberWithInt:"}
      [] c = "UIView" -> {"allocWithZone:", "layerClass"}
      [] c = "CALayer" -> {"allocWithZone:", "layer"}
      [] c = "NSBundle" -> {"mainBundle", "preferredLocalizationsFromArray:"}
      [] c = "NSFileManager" -> {"defaultManager"}
      [] OTHER -> {}

\* The methods of the guest's Knob: a setter and a getter for "level", an
\* underscored setter for "level" and for "secret", getters for "title" and
\* "ratio".
KnobMethods == {"setLevel:", "_setLevel:", "_setSecret:", "level", "title", "ratio"}

\* The methods of a layer that a view uses.
CALayerMethods ==
    {"setDelegate:", "isOpaque", "setOpaque:", "isHidden", "setHidden:", "opacity",
     "setOpacity:", "bounds", "setBounds:", "frame", "setFrame:", "containsPoint:",
     "addSublayer:", "removeFromSuperlayer", "setNeedsDisplay"}

\* "-" methods of each @implementation.
InstanceMethods(c) ==
    CASE c = "NSObject" -> {"init", "retain", "release", "autorelease", "retainCount",
                            "dealloc", "class", "isMemberOfClass:", "isKindOfClass:",
                            "hash", "isEqual:", "description", "copy", "mutableCopy",
                            "setValue:forKey:", "valueForKey:", "respondsToSelector:",
                            "performSelector:", "performSelector:withObject:",
                            "performSelector:withObject:withObject:",
                            "methodForSelector:", "conformsToProtocol:",
                            "performSelector:onThread:withObject:waitUntilDone:"}
      [] c = "NSDate" -> {"init", "initWithTimeIntervalSinceNow:",
                          "timeIntervalSinceDate:", "timeIntervalSince1970"}
      [] c = "NSError" -> {"initWithDomain:code:userInfo:", "dealloc"}
      [] c = "UIView" -> {"init", "initWithFrame:", "initWithCoder:",
                          "isUserInteractionEnabled", "setUserInteractionEnabled:",
                          "setMultipleTouchEnabled:", "layoutSubviews", "superview",
                          "addSubview:", "bringSubviewToFront:", "removeFromSuperview",
                          "dealloc", "layer", "isHidden", "setHidden:", "isOpaque",
                          "setOpaque:", "alpha", "setAlpha:", "backgroundColor",
                          "setBackgroundColor:", "setNeedsDisplay", "bounds",
                          "setBounds:", "center", "setCenter:", "frame", "setFrame:",
                          "setContentMode:", "clearsContextBeforeDrawing",
                          "setClearsContextBeforeDrawing:", "drawRect:",
                          "drawLayer:inContext:", "pointInside:withEvent:",
                          "hitTest:withEvent:"}
      [] c = "Knob" -> KnobMethods
      [] c = "CALayer" -> CALayerMethods
      [] c = "NSBundle" -> {"dealloc", "bundlePath", "bundleURL", "resourcePath",
                            "resourceURL", "pathForResource:ofType:inDirectory:",
                            "pathForResource:ofType:",
                            "URLForResource:withExtension:subdirectory:"}
      [] c = "NSFileManager" -> {"fileExistsAtPath:",
                                 "createFileAtPath:contents:attributes:"}
      [] OTHER -> {}

\* Protocols a class declares it adopts (none of the sources declares any,
\* these are the usual ones of the platform).
AdoptedProtocols(c) ==
    CASE c = "NSObject" -> {"NSObject"}
      [] c = "NSDate" -> {"NSCopying"}
      [] OTHER -> {}

Protocols == {"NSObject", "NSCopying", "NSCoding"}

MethodTable(c, side) == IF side = "+" THEN ClassMethods(c) ELSE InstanceMethods(c)

\* Method-table walk from c toward the root.  For side "+" the walk is over
\* the metaclass chain, which mirrors the class chain.
\* The result is the class whose table holds sel, or NoClass.
RECURSIVE lookup_method(_, _, _)
lookup_method(c, sel, side) ==
    IF c = NoClass THEN NoClass
    ELSE IF sel \in MethodTable(c, side) THEN c
    ELSE lookup_method(Superclass(c), sel, side)

class_has_method(c, sel) == lookup_method(c, sel, "-") # NoClass

RECURSIVE class_is_subclass_of(_, _)
class_is_subclass_of(c, super) ==
    IF c = NoClass THEN FALSE
    ELSE IF c = super THEN TRUE
    ELSE class_is_subclass_of(Superclass(c), super)

RECURSIVE class_conformsToProtocol(_, _)
class_conformsToProtocol(c, p) ==
    IF c = NoClass THEN FALSE
    ELSE IF p \in AdoptedProtocols(c) THEN TRUE
    ELSE class_conformsToProtocol(Superclass(c), p)

\* The ancestor chain of c, c itself included.
RECURSIVE Ancestors(_)
Ancestors(c) == IF c = NoClass THEN {} ELSE {c} \cup Ancestors(Superclass(c))

\* ------------------------------------------------------------ the state
VARIABLES
    objects,   \* the object table: address -> entry (isa NoClass: no entry)
    pools,     \* the autorelease pool stack, innermost last
    err,       \* the panic that stopped the host, kind "none" while running
    freed,     \* the addresses at which an object has been torn down
    deallocs,  \* deallocs[a]: the dealloc bodies run on the latest object at a
    allocs,    \* the allocation table: base address -> size (0: nothing live there)
    bytes,     \* guest memory, one byte per address
    instances, \* the audio component instances: instance -> host object
    disposed,  \* the instance disposed of last, nil once the address is an instance again
    threads,   \* the guest threads: what each is doing and has still to do
    now,       \* the host clock, in microseconds
    sends,     \* retains and releases delivered to the object the threads share
    call,      \* the formatted print under way: format, position, text, arguments
    link,      \* the load of the guest binary: export tables, imports, slots
    views,     \* the internal list of views (State::views), non-retaining
    owned,     \* owned[a]: the references on a that the guest's own code holds
    framework_state \* the frameworks' own state: the singletons made, the run loops

vars == <<objects, pools, err, freed, deallocs, allocs, bytes, instances, disposed,
          threads, now, sends, call, link, views, owned, framework_state>>

\* Host objects.
NoHost == [type |-> "none"]
TrivialHostObject == [type |-> "TrivialHostObject"]
NSDateHostObject(instant) == [type |-> "NSDateHostObject", instant |-> instant]
ErrorHostObject(domain, code, user_info) ==
    [type |-> "ErrorHostObject", domain |-> domain, code |-> code, user_info |-> user_info]

NoEntry == [isa |-> NoClass, refcount |-> 0, host |-> NoHost]
NoError == [kind |-> "none", obj |-> nil, cls |-> NoClass, sel |-> ""]
NoOwned == [a \in Addr |-> 0]
\* #[derive(Default)] State of audio_components: the empty table.
NoInstances == <<>>
\* #[derive(Default)] State of ns_bundle and ns_file_manager: None, written
\* nil; and the run loop of each thread with nothing scheduled on it.
NoFrameworkState ==
    [main_bundle |-> nil, default_manager |-> nil,
     run_loops |-> [t \in {"main", "worker"} |-> <<>>]]

\* ----------------------------------------------- the environment record
\* Besides the state: log, the method bodies run so far by the operation
\* under way; ret, the value last returned; depth, the nesting of the send
\* being executed; fresh, the address the guest memory allocator hands out
\* next (its choice is the caller's \E).
Ok(e) == e.err.kind = "none"
InTable(e, a) == a \in DOMAIN e.objects /\ e.objects[a].isa # NoClass
SetRet(e, v) == IF Ok(e) THEN [e EXCEPT !.ret = v] ELSE e

\* panic!(): the host stops; what was changed so far stays changed.
Panic(e, kind, a, c, sel) ==
    IF Ok(e) THEN [e EXCEPT !.err = [kind |-> kind, obj |-> a, cls |-> c, sel |-> sel]]
    ELSE e

\* One entry of the log: the body of impl's sel starts to run on recv, an
\* instance of cls (side "-") or the class object cls itself (side "+", recv
\* nil), with the argument arg.  rc is the reference count of recv when the
\* body starts.
Note(e, impl, side, sel, recv, cls, arg) ==
    [e EXCEPT
        !.log = Append(@,
            [impl |-> impl, side |-> side, sel |-> sel, recv |-> recv, cls |-> cls,
             arg |-> arg,
             rc |-> IF InTable(e, recv) THEN e.objects[recv].refcount ELSE 0,
             depth |-> e.depth]),
        !.deallocs = IF side = "-" /\ sel = "dealloc"
                     THEN [@ EXCEPT ![recv] = @ + 1] ELSE @]

\* ------------------------------------------- runtime primitives (objc)
\* Instantiation: a new guest object with its host object, count 1.
alloc_object(e, class, host) ==
    IF ~Ok(e) THEN e
    ELSE [e EXCEPT
            !.objects[e.fresh] = [isa |-> class, refcount |-> 1, host |-> host],
            !.deallocs[e.fresh] = 0,
            !.ret = e.fresh]

\* Removal from the table; the guest memory of the object is freed with it.
dealloc_object(e, a) ==
    IF ~Ok(e) THEN e
    ELSE IF ~InTable(e, a) THEN Panic(e, "no entry for object", a, NoClass, "")
    ELSE [e EXCEPT !.objects[a] = NoEntry, !.freed = @ \cup {a}, !.ret = nil]

increment_refcount(e, a) ==
    IF ~Ok(e) THEN e
    ELSE IF ~InTable(e, a) THEN Panic(e, "no entry for object", a, NoClass, "")
    ELSE [e EXCEPT !.objects[a].refcount = @ + 1]

\* Returns (in ret) whether the count reached zero.  A release past zero is
\* reported, the counter does not wrap.
decrement_refcount(e, a) ==
    IF ~Ok(e) THEN e
    ELSE IF ~InTable(e, a) THEN Panic(e, "no entry for object", a, NoClass, "")
    ELSE IF e.objects[a].refcount = 0 THEN Panic(e, "release past zero", a, NoClass, "")
    ELSE [e EXCEPT !.objects[a].refcount = @ - 1,
                   !.ret = (e.objects[a].refcount = 1)]

get_refcount(e, a) ==
    IF ~Ok(e) THEN e
    ELSE IF ~InTable(e, a) THEN Panic(e, "no entry for object", a, NoClass, "")
    ELSE [e EXCEPT !.ret = e.objects[a].refcount]

\* The isa pointer is the first word of the object's guest memory: reading
\* it outside an extant allocation is an out-of-bounds access.
read_isa(e, a) ==
    IF ~Ok(e) THEN e
    ELSE IF ~InTable(e, a) THEN Panic(e, "out of bounds", a, NoClass, "")
    ELSE [e EXCEPT !.ret = e.objects[a].isa]

\* borrow::<T>(): the host object of a, which must be of type T.
BorrowOk(e, a, type) == InTable(e, a) /\ e.objects[a].host.type = type
BorrowPanic(e, a) ==
    IF InTable(e, a) THEN Panic(e, "host object of another type", a, NoClass, "")
    ELSE Panic(e, "no entry for object", a, NoClass, "")

\* +[NSAutoreleasePool addObject:]: registration with the innermost pool.
NSAutoreleasePool_addObject(e, a) ==
    IF ~Ok(e) THEN e
    ELSE IF e.pools = <<>> THEN Panic(e, "no autorelease pool", a, NoClass, "")
    ELSE [e EXCEPT !.pools[Len(e.pools)] = Append(@, a), !.ret = nil]

push_pool(e) == IF ~Ok(e) THEN e ELSE [e EXCEPT !.pools = Append(@, <<>>), !.ret = Len(e.pools) + 1]

\* SystemTime::now(): the clock stands still in the model.
Now == 0

\* -------------------------------------------------------- message sends
\* objc_msgSend: the one entry of every send.  side "-": target is an instance,
\* the walk starts at its class; side "+": target is a class object, the walk
\* is over the "+" tables from that class.
RECURSIVE objc_msgSend(_, _, _, _, _)

\* A message to an instance.
msg_send(e, receiver, sel, arg) == objc_msgSend(e, "-", receiver, sel, arg)

\* A message to a class object.
msg_class(e, class, sel, arg) == objc_msgSend(e, "+", class, sel, arg)

\* objc::retain, objc::release, objc::autorelease: nil is left alone.
retain(e, object) == IF object = nil THEN e ELSE msg_send(e, object, "retain", nil)
release(e, object) == IF object = nil THEN e ELSE msg_send(e, object, "release", nil)
autorelease(e, object) == IF object = nil THEN e ELSE msg_send(e, object, "autorelease", nil)

\* ------------------------------------------------------------- NSObject
NSObject_alloc(e, this) == msg_class(e, this, "allocWithZone:", nil)

NSObject_allocWithZone(e, this) == alloc_object(e, this, TrivialHostObject)

NSObject_class_retain(e, this) == e

NSObject_class_release(e, this) == e

\* A faulty class-side autorelease: an entry lands in the innermost pool.
NSObject_class_autorelease_pooled(e, this) == NSAutoreleasePool_addObject(e, nil)

NSObject_class_autorelease(e, this) == e

\* A faulty query: only the class's own table is looked at.
NSObject_instancesRespondToSelector_own(e, this, selector) ==
    SetRet(e, selector \in InstanceMethods(this))

NSObject_instancesRespondToSelector(e, this, selector) ==
    SetRet(e, class_has_method(this, selector))

NSObject_instanceMethodForSelector(e, this, selector) ==
    IF lookup_method(this, selector, "-") = NoClass
    THEN Panic(e, "unable to lookup method", nil, this, selector)
    ELSE Panic(e, "todo", nil, this, selector)

NSObject_init(e, this) == SetRet(e, this)

\* A faulty retain: the count is left as it is.
NSObject_retain_forgetful(e, this) ==
    IF InTable(e, this) THEN SetRet(e, this) ELSE increment_refcount(e, this)

NSObject_retain(e, this) == SetRet(increment_refcount(e, this), this)

\* A faulty release: the count goes down and dealloc is never sent.
NSObject_release_counting(e, this) == SetRet(decrement_refcount(e, this), nil)

\* A faulty release: at zero the entry is dropped from the table, no dealloc
\* is sent.
NSObject_release_dropping(e, this) ==
    LET e1 == decrement_refcount(e, this)
    IN  IF Ok(e1) /\ e1.ret THEN dealloc_object(e1, this)
        ELSE SetRet(e1, nil)

\* A faulty release: dealloc is sent whatever the count has become.
NSObject_release_eager(e, this) ==
    LET e1 == decrement_refcount(e, this)
    IN  IF Ok(e1) THEN msg_send(e1, this, "dealloc", nil) ELSE e1

NSObject_release(e, this) ==
    LET e1 == decrement_refcount(e, this)
    IN  IF Ok(e1) /\ e1.ret THEN msg_send(e1, this, "dealloc", nil)
        ELSE SetRet(e1, nil)

\* A faulty autorelease: the release is sent at once.
NSObject_autorelease_now(e, this) == SetRet(msg_send(e, this, "release", nil), this)

NSObject_autorelease(e, this) == SetRet(NSAutoreleasePool_addObject(e, this), this)

NSObject_retainCount(e, this) == get_refcount(e, this)

NSObject_dealloc(e, this) == dealloc_object(e, this)

NSObject_class(e, this) == read_isa(e, this)

NSObject_isMemberOfClass(e, this, class) ==
    LET e1 == msg_send(e, this, "class", nil)
    IN  IF Ok(e1) THEN SetRet(e1, class = e1.ret) ELSE e1

\* A faulty isKindOfClass: the test of isMemberOfClass.
NSObject_isKindOfClass_exact(e, this, class) ==
    LET e1 == msg_send(e, this, "class", nil)
    IN  IF Ok(e1) THEN SetRet(e1, class = e1.ret) ELSE e1

NSObject_isKindOfClass(e, this, class) ==
    LET e1 == msg_send(e, this, "class", nil)
    IN  IF Ok(e1) THEN SetRet(e1, class_is_subclass_of(e1.ret, class)) ELSE e1

\* A faulty respondsToSelector: it keeps a reference on the receiver.
NSObject_respondsToSelector_retaining(e, this, selector) ==
    LET e1 == msg_send(msg_send(e, this, "retain", nil), this, "class", nil)
    IN  IF Ok(e1) THEN SetRet(e1, class_has_method(e1.ret, selector)) ELSE e1

NSObject_respondsToSelector(e, this, selector) ==
    LET e1 == msg_send(e, this, "class", nil)
    IN  IF Ok(e1) THEN SetRet(e1, class_has_method(e1.ret, selector)) ELSE e1

\* A faulty methodForSelector: a null pointer for a method that is not found.
NSObject_methodForSelector_silent(e, this, selector) ==
    LET e1 == read_isa(e, this)
    IN  IF ~Ok(e1) THEN e1
        ELSE IF lookup_method(e1.ret, selector, "-") = NoClass
        THEN SetRet(e, nil)
        ELSE Panic(e, "todo", this, e1.ret, selector)

NSObject_methodForSelector(e, this, selector) ==
    LET e1 == read_isa(e, this)
    IN  IF ~Ok(e1) THEN e1
        ELSE IF lookup_method(e1.ret, selector, "-") = NoClass
        THEN Panic(e, "unable to lookup method", this, e1.ret, selector)
        ELSE Panic(e, "todo", this, e1.ret, selector)

NSObject_performSelector(e, this, sel) == msg_send(e, this, sel, nil)

NSObject_conformsToProtocol(e, this, protocol) ==
    LET e1 == msg_send(e, this, "class", nil)
    IN  IF Ok(e1) THEN SetRet(e1, class_conformsToProtocol(e1.ret, protocol)) ELSE e1

\* --------------------------------------------------------------- NSDate
NSDate_allocWithZone(e, this) == alloc_object(e, this, NSDateHostObject(Now))

NSDate_date(e, this) ==
    LET e1 == msg_class(e, this, "alloc", nil)
    IN  IF Ok(e1) THEN autorelease(e1, e1.ret) ELSE e1

NSDate_init(e, this) == SetRet(e, this)

to_date(e, date) ==
    IF ~Ok(e) THEN e
    ELSE IF BorrowOk(e, date, "NSDateHostObject")
    THEN SetRet(e, e.objects[date].host.instant)
    ELSE BorrowPanic(e, date)

\* -------------------------------------------------------------- NSError
NSError_allocWithZone(e, this) == alloc_object(e, this, ErrorHostObject(nil, 0, nil))

\* A faulty initWithDomain:code:userInfo: the user info is kept without a
\* retain.
NSError_initWithDomain_borrowing(e, this, arg) ==
    LET e1 == retain(e, arg[1])
    IN  IF ~Ok(e1) THEN e1
        ELSE IF ~BorrowOk(e1, this, "ErrorHostObject") THEN BorrowPanic(e1, this)
        ELSE [e1 EXCEPT !.objects[this].host = ErrorHostObject(arg[1], arg[2], arg[3]),
                        !.ret = this]

\* arg is <<domain, code, user_info>>.
NSError_initWithDomain(e, this, arg) ==
    LET e1 == retain(e, arg[1])
        e2 == retain(e1, arg[3])
    IN  IF ~Ok(e2) THEN e2
        ELSE IF ~BorrowOk(e2, this, "ErrorHostObject") THEN BorrowPanic(e2, this)
        ELSE [e2 EXCEPT !.objects[this].host = ErrorHostObject(arg[1], arg[2], arg[3]),
                        !.ret = this]

NSError_dealloc(e, this) ==
    IF ~Ok(e) THEN e
    ELSE IF ~BorrowOk(e, this, "ErrorHostObject") THEN BorrowPanic(e, this)
    ELSE LET e1 == release(e, e.objects[this].host.domain)
             e2 == release(e1, e.objects[this].host.user_info)
         IN  dealloc_object(e2, this)

\* ------------------------------------------------------------- NSNumber
NSNumberHostObject(value) == [type |-> "NSNumberHostObject", value |-> value]

\* +[NSNumber numberWithInt:]: a new autoreleased number holding value.
NSNumber_numberWithInt(e, this, value) ==
    autorelease(alloc_object(e, this, NSNumberHostObject(value)), e.fresh)

\* ------------------------------------------------- the guest's Knob class
\* What the guest's accessors do is the guest's business: the setters return
\* nothing, level answers KnobLevel, title the receiver, ratio a float.
KnobLevel == 7
Knob_method(e, this, sel) ==
    CASE sel = "level" -> SetRet(e, KnobLevel)
      [] sel = "title" -> SetRet(e, this)
      [] OTHER -> SetRet(e, nil)

\* The type encoding of impl's method sel; its first character is the type
\* of the result.
type_(impl, sel) ==
    CASE impl = "Knob" /\ sel = "level" -> <<"i", "@", ":">>
      [] impl = "Knob" /\ sel = "title" -> <<"@", "@", ":">>
      [] impl = "Knob" /\ sel = "ratio" -> <<"f", "@", ":">>
      [] OTHER -> <<"v", "@", ":">>

\* ------------------------------------------------ NSKeyValueCoding
\* Every selector name registered with the runtime.
Selectors == UNION {MethodTable(c, side) : c \in Classes, side \in {"+", "-"}}
NoSelector == ""
lookup_selector(name) == IF name \in Selectors THEN name ELSE NoSelector

\* A string is the sequence of its characters.
RECURSIVE to_rust_string(_)
to_rust_string(chars) ==
    IF chars = <<>> THEN "" ELSE Head(chars) \o to_rust_string(Tail(chars))

Lower == <<"a", "b", "c", "d", "e", "f", "g", "h", "i", "j", "k", "l", "m",
           "n", "o", "p", "q", "r", "s", "t", "u", "v", "w", "x", "y", "z">>
Upper == <<"A", "B", "C", "D", "E", "F", "G", "H", "I", "J", "K", "L", "M",
           "N", "O", "P", "Q", "R", "S", "T", "U", "V", "W", "X", "Y", "Z">>
AsciiChars == {Lower[i] : i \in 1 .. 26} \cup {Upper[i] : i \in 1 .. 26} \cup {"_"}
is_ascii(chars) == \A i \in 1 .. Len(chars) : chars[i] \in AsciiChars

to_ascii_uppercase(ch) ==
    IF \E i \in 1 .. 26 : Lower[i] = ch
    THEN Upper[CHOOSE i \in 1 .. 26 : Lower[i] = ch]
    ELSE ch

\* format!("{prefix}{}{}:", first.to_ascii_uppercase(), &key[1..])
setter_name(prefix, key) ==
    prefix \o to_ascii_uppercase(key[1]) \o to_rust_string(Tail(key)) \o ":"

\* A faulty setValue:forKey: the underscored setter is sent as well.
NSObject_setValue_forKey_both(e, this, arg) ==
    LET value == arg[1]
        key == arg[2]
        e1 == msg_send(e, this, "class", nil)
    IN  IF ~Ok(e1) THEN e1
        ELSE IF ~is_ascii(key) THEN Panic(e, "assertion failed", this, NoClass, "")
        ELSE IF key = <<>> THEN Panic(e, "index out of bounds", this, NoClass, "")
        ELSE LET class == e1.ret
                 sel == lookup_selector(setter_name("set", key))
                 sel_ == lookup_selector(setter_name("_set", key))
                 e2 == IF sel # NoSelector /\ class_has_method(class, sel)
                       THEN msg_send(e1, this, sel, value) ELSE e1
             IN  IF sel_ # NoSelector /\ class_has_method(class, sel_)
                 THEN msg_send(e2, this, sel_, value)
                 ELSE IF sel # NoSelector /\ class_has_method(class, sel) THEN e2
                 ELSE Panic(e1, "unhandled key", this, class, to_rust_string(key))

\* arg is <<value, key>>, key the characters of the NSString.
NSObject_setValue_forKey(e, this, arg) ==
    LET value == arg[1]
        key == arg[2]
    IN  IF ~Ok(e) THEN e
        ELSE IF ~is_ascii(key) THEN Panic(e, "assertion failed", this, NoClass, "")
        ELSE LET e1 == msg_send(e, this, "class", nil)
             IN  IF ~Ok(e1) THEN e1
                 ELSE IF key = <<>> THEN Panic(e1, "index out of bounds", this, NoClass, "")
                 ELSE LET class == e1.ret
                          sel == lookup_selector(setter_name("set", key))
                          sel_ == lookup_selector(setter_name("_set", key))
                      IN  IF sel # NoSelector /\ class_has_method(class, sel)
                          THEN msg_send(e1, this, sel, value)
                          ELSE IF sel_ # NoSelector /\ class_has_method(class, sel_)
                          THEN msg_send(e1, this, sel_, value)
                          ELSE Panic(e1, "unhandled key", this, class, to_rust_string(key))

\* key is the characters of the NSString.
NSObject_valueForKey(e, this, key) ==
    LET e1 == msg_send(e, this, "class", nil)
    IN  IF ~Ok(e1) THEN e1
        ELSE LET class == e1.ret
                 sel == lookup_selector(to_rust_string(key))
                 mt == IF sel = NoSelector THEN NoClass ELSE lookup_method(class, sel, "-")
             IN  IF mt # NoClass
                 THEN CASE type_(mt, sel)[1] = "@" -> msg_send(e1, this, sel, nil)
                        [] type_(mt, sel)[1] = "i" ->
                              LET e2 == msg_send(e1, this, sel, nil)
                              IN  IF Ok(e2)
                                  THEN msg_class(e2, "NSNumber", "numberWithInt:", e2.ret)
                                  ELSE e2
                        [] OTHER -> Panic(e1, "unsupported type", this, class, sel)
                 ELSE Panic(e1, "unhandled key", this, class, to_rust_string(key))

\* -------------------------------------------------------------- CALayer
\* Geometry: points and rectangles with whole coordinates.
CGPoint(x, y) == [x |-> x, y |-> y]
CGRect(x, y, w, h) == [x |-> x, y |-> y, w |-> w, h |-> h]
CGRectZero == CGRect(0, 0, 0, 0)
CGRectContainsPoint(rect, point) ==
    /\ point.x >= rect.x /\ point.x < rect.x + rect.w
    /\ point.y >= rect.y /\ point.y < rect.y + rect.h

\* Opacity is counted in thousandths: 1000 is opaque, 10 is the 0.01 below
\* which a view takes no touches.
Opaque == 1000
TouchableAlpha == 10

\* What a view needs of its layer: visibility, opacity and geometry.  The
\* tree of sublayers is not kept.
CALayerHostObject ==
    [type |-> "CALayerHostObject", hidden |-> FALSE, opacity |-> Opaque,
     bounds |-> CGRectZero, frame |-> CGRectZero]

CALayer_allocWithZone(e, this) == alloc_object(e, this, CALayerHostObject)

\* +layer: a new layer that the caller owns.
CALayer_layer(e, this) ==
    LET made(e1) == IF Ok(e1) THEN msg_send(e1, e1.ret, "init", nil) ELSE e1
    IN  made(msg_class(e, this, "alloc", nil))

\* The "-" methods of a layer.  setFrame: moves the layer and resizes its
\* bounds, whose origin stays.
CALayer_method(e, this, sel, arg) ==
    IF ~Ok(e) THEN e
    ELSE IF ~BorrowOk(e, this, "CALayerHostObject") THEN BorrowPanic(e, this)
    ELSE LET host == e.objects[this].host
         IN  CASE sel = "isHidden" -> SetRet(e, host.hidden)
               [] sel = "setHidden:" -> SetRet([e EXCEPT !.objects[this].host.hidden = arg], nil)
               [] sel = "opacity" -> SetRet(e, host.opacity)
               [] sel = "setOpacity:" ->
                     SetRet([e EXCEPT !.objects[this].host.opacity = arg], nil)
               [] sel = "bounds" -> SetRet(e, host.bounds)
               [] sel = "setBounds:" -> SetRet([e EXCEPT !.objects[this].host.bounds = arg], nil)
               [] sel = "frame" -> SetRet(e, host.frame)
               [] sel = "setFrame:" ->
                     SetRet([e EXCEPT !.objects[this].host.frame = arg,
                                      !.objects[this].host.bounds =
                                          CGRect(@.x, @.y, arg.w, arg.h)], nil)
               [] sel = "containsPoint:" -> SetRet(e, CGRectContainsPoint(host.bounds, arg))
               [] OTHER -> SetRet(e, nil)

\* --------------------------------------------------------------- UIView
UIViewHostObject ==
    [type |-> "UIViewHostObject", layer |-> nil, subviews |-> <<>>, superview |-> nil,
     clears_context_before_drawing |-> TRUE, user_interaction_enabled |-> TRUE]

\* Vec: iter().position(), remove(idx), swap_remove(idx); indices from 1,
\* 0 for None.
position(v, x) ==
    IF \E i \in 1 .. Len(v) : v[i] = x
    THEN CHOOSE i \in 1 .. Len(v) : v[i] = x /\ \A j \in 1 .. i - 1 : v[j] # x
    ELSE 0
remove(v, idx) == SubSeq(v, 1, idx - 1) \o SubSeq(v, idx + 1, Len(v))
swap_remove(v, idx) ==
    IF idx = Len(v) THEN SubSeq(v, 1, Len(v) - 1)
    ELSE SubSeq([v EXCEPT ![idx] = v[Len(v)]], 1, Len(v) - 1)

\* borrow::<UIViewHostObject>(a) works.
IsView(e, a) == BorrowOk(e, a, "UIViewHostObject")

UIView_allocWithZone(e, this) == alloc_object(e, this, UIViewHostObject)

UIView_layerClass(e, this) == SetRet(e, "CALayer")

UIView_init(e, this) ==
    LET listed(e5, layer) ==
            IF ~Ok(e5) THEN e5
            ELSE IF ~IsView(e5, this) THEN BorrowPanic(e5, this)
            ELSE SetRet([e5 EXCEPT !.objects[this].host.layer = layer,
                                   !.views = Append(@, this)], this)
        made(e3) ==
            IF ~Ok(e3) THEN e3
            ELSE listed(msg_send(msg_send(e3, e3.ret, "setDelegate:", this),
                                 e3.ret, "setOpaque:", TRUE), e3.ret)
        layered(e2) == IF ~Ok(e2) THEN e2 ELSE made(msg_class(e2, e2.ret, "layer", nil))
        classed(e1) ==
            IF ~Ok(e1) THEN e1 ELSE layered(msg_class(e1, e1.ret, "layerClass", nil))
    IN  classed(msg_send(e, this, "class", nil))

UIView_initWithFrame(e, this, frame) ==
    LET framed(e1) ==
            IF ~Ok(e1) THEN e1
            ELSE SetRet(msg_send(e1, e1.ret, "setFrame:", frame), e1.ret)
    IN  framed(msg_send(e, this, "init", nil))

UIView_isUserInteractionEnabled(e, this) ==
    IF ~Ok(e) THEN e
    ELSE IF ~IsView(e, this) THEN BorrowPanic(e, this)
    ELSE SetRet(e, e.objects[this].host.user_interaction_enabled)

UIView_setUserInteractionEnabled(e, this, enabled) ==
    IF ~Ok(e) THEN e
    ELSE IF ~IsView(e, this) THEN BorrowPanic(e, this)
    ELSE SetRet([e EXCEPT !.objects[this].host.user_interaction_enabled = enabled], nil)

UIView_superview(e, this) ==
    IF ~Ok(e) THEN e
    ELSE IF ~IsView(e, this) THEN BorrowPanic(e, this)
    ELSE SetRet(e, e.objects[this].host.superview)

\* layer, isHidden, setHidden:, alpha, setAlpha:, bounds, setBounds:, frame,
\* setFrame:, pointInside:withEvent: and the like: the view passes the
\* message lsel on to its layer.
UIView_to_layer(e, this, lsel, arg) ==
    IF ~Ok(e) THEN e
    ELSE IF ~IsView(e, this) THEN BorrowPanic(e, this)
    ELSE msg_send(e, e.objects[this].host.layer, lsel, arg)

UIView_layer(e, this) ==
    IF ~Ok(e) THEN e
    ELSE IF ~IsView(e, this) THEN BorrowPanic(e, this)
    ELSE SetRet(e, e.objects[this].host.layer)

UIView_bringSubviewToFront(e, this, subview) ==
    IF ~Ok(e) THEN e
    ELSE IF ~IsView(e, this) THEN BorrowPanic(e, this)
    ELSE LET layer == e.objects[this].host.layer
             idx == position(e.objects[this].host.subviews, subview)
             relayered(e1, subview_layer) ==
                 SetRet(msg_send(msg_send(e1, subview_layer, "removeFromSuperlayer", nil),
                                 layer, "addSublayer:", subview_layer), nil)
             moved(e1) ==
                 IF ~IsView(e1, subview) THEN BorrowPanic(e1, subview)
                 ELSE relayered(e1, e1.objects[subview].host.layer)
         IN  IF idx = 0
             THEN Panic(e, "unwrap on None", this, NoClass, "bringSubviewToFront:")
             ELSE moved([e EXCEPT !.objects[this].host.subviews =
                                      Append(remove(@, idx), subview)])

\* A faulty removeFromSuperview, which leaves the superview link in place.
UIView_removeFromSuperview_linked(e, this) ==
    IF ~Ok(e) THEN e
    ELSE IF ~IsView(e, this) THEN BorrowPanic(e, this)
    ELSE LET superview == e.objects[this].host.superview
             unlisted(e2) ==
                 IF ~Ok(e2) THEN e2
                 ELSE IF ~IsView(e2, superview) THEN BorrowPanic(e2, superview)
                 ELSE IF position(e2.objects[superview].host.subviews, this) = 0
                 THEN Panic(e2, "unwrap on None", this, NoClass, "removeFromSuperview")
                 ELSE SetRet(release([e2 EXCEPT !.objects[superview].host.subviews =
                                         remove(@, position(@, this))], this), nil)
         IN  IF superview = nil THEN SetRet(e, nil)
             ELSE unlisted(msg_send(e, e.objects[this].host.layer,
                                    "removeFromSuperlayer", nil))

UIView_removeFromSuperview(e, this) ==
    IF ~Ok(e) THEN e
    ELSE IF ~IsView(e, this) THEN BorrowPanic(e, this)
    ELSE LET superview == e.objects[this].host.superview
             this_layer == e.objects[this].host.layer
             unlisted(e2) ==
                 IF ~Ok(e2) THEN e2
                 ELSE IF ~IsView(e2, superview) THEN BorrowPanic(e2, superview)
                 ELSE IF position(e2.objects[superview].host.subviews, this) = 0
                 THEN Panic(e2, "unwrap on None", this, NoClass, "removeFromSuperview")
                 ELSE SetRet(release([e2 EXCEPT !.objects[superview].host.subviews =
                                         remove(@, position(@, this))], this), nil)
         IN  IF superview = nil
             THEN SetRet([e EXCEPT !.objects[this].host.superview = nil], nil)
             ELSE unlisted(msg_send([e EXCEPT !.objects[this].host.superview = nil],
                                    this_layer, "removeFromSuperlayer", nil))

\* A faulty addSubview:, which takes no reference on the view.
UIView_addSubview_unretained(e, this, view) ==
    IF ~Ok(e) \/ view = nil THEN SetRet(e, nil)
    ELSE IF ~IsView(e, view) THEN BorrowPanic(e, view)
    ELSE LET pushed(e2) ==
                 IF ~Ok(e2) THEN e2
                 ELSE IF ~IsView(e2, view) THEN BorrowPanic(e2, view)
                 ELSE IF ~IsView(e2, this) THEN BorrowPanic(e2, this)
                 ELSE SetRet(msg_send([e2 EXCEPT !.objects[view].host.superview = this,
                                                 !.objects[this].host.subviews =
                                                     Append(@, view)],
                                      e2.objects[this].host.layer, "addSublayer:",
                                      e2.objects[view].host.layer), nil)
         IN  IF e.objects[view].host.superview = this
             THEN SetRet(msg_send(e, this, "bringSubviewToFront:", view), nil)
             ELSE IF e.objects[view].host.superview = nil
             THEN pushed(e)
             ELSE pushed(msg_send(retain(e, view), view, "removeFromSuperview", nil))

UIView_addSubview(e, this, view) ==
    IF ~Ok(e) \/ view = nil THEN SetRet(e, nil)
    ELSE IF ~IsView(e, view) THEN BorrowPanic(e, view)
    ELSE LET pushed(e2) ==
                 IF ~Ok(e2) THEN e2
                 ELSE IF ~IsView(e2, view) THEN BorrowPanic(e2, view)
                 ELSE IF ~IsView(e2, this) THEN BorrowPanic(e2, this)
                 ELSE SetRet(msg_send([e2 EXCEPT !.objects[view].host.superview = this,
                                                 !.objects[this].host.subviews =
                                                     Append(@, view)],
                                      e2.objects[this].host.layer, "addSublayer:",
                                      e2.objects[view].host.layer), nil)
         IN  IF e.objects[view].host.superview = this
             THEN SetRet(msg_send(e, this, "bringSubviewToFront:", view), nil)
             ELSE pushed(msg_send(retain(e, view), view, "removeFromSuperview", nil))

\* A faulty loop, which leaves the superview link of the subviews in place.
RECURSIVE UIView_dealloc_subviews_linked(_, _)
UIView_dealloc_subviews_linked(e, subviews) ==
    IF subviews = <<>> \/ ~Ok(e) THEN e
    ELSE UIView_dealloc_subviews_linked(release(e, Head(subviews)), Tail(subviews))

\* The loop of dealloc over the subviews taken out of the host object.
RECURSIVE UIView_dealloc_subviews(_, _)
UIView_dealloc_subviews(e, subviews) ==
    IF subviews = <<>> \/ ~Ok(e) THEN e
    ELSE IF ~IsView(e, Head(subviews)) THEN BorrowPanic(e, Head(subviews))
    ELSE UIView_dealloc_subviews(
             release([e EXCEPT !.objects[Head(subviews)].host.superview = nil],
                     Head(subviews)),
             Tail(subviews))

UIView_dealloc(e, this) ==
    IF ~Ok(e) THEN e
    ELSE IF ~IsView(e, this) THEN BorrowPanic(e, this)
    ELSE LET taken == e.objects[this].host
             unlisted(e3) ==
                 IF ~Ok(e3) THEN e3
                 ELSE IF position(e3.views, this) = 0
                 THEN Panic(e3, "unwrap on None", this, NoClass, "dealloc")
                 ELSE dealloc_object([e3 EXCEPT !.views = swap_remove(@, position(@, this))],
                                     this)
             asserted(e1) ==
                 IF ~Ok(e1) THEN e1
                 ELSE IF taken.superview # nil
                 THEN Panic(e1, "assertion failed", this, NoClass, "superview == nil")
                 ELSE unlisted(UIView_dealloc_subviews(e1, taken.subviews))
         IN  asserted(release([e EXCEPT !.objects[this].host = UIViewHostObject],
                              taken.layer))

\* hitTest:withEvent:, and its loop over the subviews from the last to the
\* first.
RECURSIVE UIView_hitTest_subviews(_, _, _, _, _)
UIView_hitTest_subviews(e, this, point, event, rest) ==
    IF ~Ok(e) THEN e
    ELSE IF rest = <<>> THEN SetRet(e, this)
    ELSE LET subview == rest[Len(rest)]
             before == SubSeq(rest, 1, Len(rest) - 1)
             tested(e6) ==
                 IF ~Ok(e6) THEN e6
                 ELSE IF e6.ret # nil THEN e6
                 ELSE UIView_hitTest_subviews(e6, this, point, event, before)
             placed(e4, frame) ==
                 IF ~Ok(e4) THEN e4
                 ELSE tested(msg_send(e4, subview, "hitTest:withEvent:",
                                 <<CGPoint(point.x - frame.x + e4.ret.x,
                                           point.y - frame.y + e4.ret.y), event>>))
             framed(e4) ==
                 IF ~Ok(e4) THEN e4
                 ELSE placed(msg_send(e4, subview, "bounds", nil), e4.ret)
             asked(e3, hidden, alpha) ==
                 IF ~Ok(e3) THEN e3
                 ELSE IF hidden \/ alpha < TouchableAlpha \/ ~e3.ret
                 THEN UIView_hitTest_subviews(e3, this, point, event, before)
                 ELSE framed(msg_send(e3, subview, "frame", nil))
             alphaed(e2, hidden) ==
                 IF ~Ok(e2) THEN e2
                 ELSE asked(msg_send(e2, this, "isUserInteractionEnabled", nil),
                            hidden, e2.ret)
             hiddened(e1) ==
                 IF ~Ok(e1) THEN e1
                 ELSE alphaed(msg_send(e1, subview, "alpha", nil), e1.ret)
         IN  hiddened(msg_send(e, subview, "isHidden", nil))

UIView_hitTest(e, this, point, event) ==
    LET inside(e1) ==
            IF ~Ok(e1) THEN e1
            ELSE IF ~e1.ret THEN SetRet(e1, nil)
            ELSE IF ~IsView(e1, this) THEN BorrowPanic(e1, this)
            ELSE UIView_hitTest_subviews(e1, this, point, event,
                                         e1.objects[this].host.subviews)
    IN  inside(msg_send(e, this, "pointInside:withEvent:", <<point, event>>))

\* ------------------------------------------------- NSBundle, NSFileManager
\* + (id)new
NSObject_new(e, this) ==
    LET inited(e1) == IF Ok(e1) THEN msg_send(e1, e1.ret, "init", nil) ELSE e1
    IN  inited(msg_class(e, this, "alloc", nil))

\* The path of the application's bundle.
BundlePath == "/App.app"

StringHostObject(string) == [type |-> "StringHostObject", string |-> string]

\* The address the allocator hands out after e.fresh: the lowest that has
\* held no object yet, nil when there is none.
next_fresh(e) ==
    LET free == {a \in DOMAIN e.objects :
                    ~InTable(e, a) /\ a \notin e.freed /\ a # e.fresh}
    IN  IF free = {} THEN nil ELSE CHOOSE a \in free : \A b \in free : a <= b

\* ns_string::from_rust_string: a new string object that the caller owns.
from_rust_string(e, string) ==
    IF ~Ok(e) THEN e
    ELSE LET e1 == alloc_object(e, "NSString", StringHostObject(string))
         IN  [e1 EXCEPT !.fresh = next_fresh(e)]

NSBundleHostObject(bundle_path) ==
    [type |-> "NSBundleHostObject", bundle_path |-> bundle_path, bundle_url |-> nil,
     info_dictionary |-> nil]

NSBundle_mainBundle(e, this) ==
    LET kept(e2) ==
            IF ~Ok(e2) THEN e2 ELSE [e2 EXCEPT !.framework_state.main_bundle = e2.ret]
        made(e1, bundle_path) ==
            kept(alloc_object(e1, this, NSBundleHostObject(bundle_path)))
        pathed(e1) == IF ~Ok(e1) THEN e1 ELSE made(e1, e1.ret)
    IN  IF ~Ok(e) THEN e
        ELSE IF e.framework_state.main_bundle # nil
        THEN SetRet(e, e.framework_state.main_bundle)
        ELSE pathed(from_rust_string(e, BundlePath))

NSBundle_dealloc(e, this) ==
    IF ~Ok(e) THEN e
    ELSE IF ~(InTable(e, this) /\ e.objects[this].host.type = "NSBundleHostObject")
    THEN BorrowPanic(e, this)
    ELSE dealloc_object(release(release(e, e.objects[this].host.bundle_url),
                                e.objects[this].host.info_dictionary), this)

NSBundle_bundlePath(e, this) ==
    IF ~Ok(e) THEN e
    ELSE IF ~(InTable(e, this) /\ e.objects[this].host.type = "NSBundleHostObject")
    THEN BorrowPanic(e, this)
    ELSE SetRet(e, e.objects[this].host.bundle_path)

NSFileManager_defaultManager(e, this) ==
    LET kept(e1) ==
            IF ~Ok(e1) THEN e1
            ELSE SetRet(autorelease([e1 EXCEPT !.framework_state.default_manager = e1.ret],
                                    e1.ret), e1.ret)
    IN  IF ~Ok(e) THEN e
        ELSE IF e.framework_state.default_manager # nil
        THEN SetRet(e, e.framework_state.default_manager)
        ELSE kept(msg_class(e, this, "new", nil))

\* ------------------------------------------------------ run loops
\* ns_thread::get_run_loop: the run loop of the thread, one per thread.
get_run_loop(e, thread) == thread

\* ns_run_loop::schedule_invocation: one more invocation at the end of what
\* the run loop has to run.
schedule_invocation(e, run_loop, target, selector, arg) ==
    IF ~Ok(e) THEN e
    ELSE [e EXCEPT !.framework_state.run_loops[run_loop] =
                        Append(@, [target |-> target, selector |-> selector, arg |-> arg]),
                   !.ret = nil]

\* One turn of the run loop: the invocation scheduled first is taken off
\* and its selector is sent to its target.
run_loop_turn(e, run_loop) ==
    IF ~Ok(e) THEN e
    ELSE LET inv == Head(e.framework_state.run_loops[run_loop])
         IN  msg_send([e EXCEPT !.framework_state.run_loops[run_loop] = Tail(@)],
                      inv.target, inv.selector, inv.arg)

\* arg is <<selector, thread, arg, wait>>.  With wait the source writes a
\* line to the log and goes on as without.
NSObject_performSelector_onThread(e, this, arg) ==
    schedule_invocation(e, get_run_loop(e, arg[2]), this, arg[1], arg[3])

\* ------------------------------------------------------------- dispatch
\* The body of impl's method sel, run on this.
RECURSIVE Invoke(_, _, _, _, _, _)
Invoke(impl, side, sel, e, this, arg) ==
    CASE impl = "NSObject" /\ side = "+" /\ sel = "alloc" -> NSObject_alloc(e, this)
      [] impl = "NSObject" /\ side = "+" /\ sel = "allocWithZone:" -> NSObject_allocWithZone(e, this)
      [] impl = "NSObject" /\ side = "+" /\ sel = "new" -> NSObject_new(e, this)
      [] impl = "NSObject" /\ side = "+" /\ sel = "retain" -> NSObject_class_retain(e, this)
      [] impl = "NSObject" /\ side = "+" /\ sel = "release" -> NSObject_class_release(e, this)
      [] impl = "NSObject" /\ side = "+" /\ sel = "autorelease" -> NSObject_class_autorelease(e, this)
      [] impl = "NSObject" /\ side = "+" /\ sel = "instancesRespondToSelector:" ->
            NSObject_instancesRespondToSelector(e, this, arg)
      [] impl = "NSObject" /\ side = "+" /\ sel = "instanceMethodForSelector:" ->
            NSObject_instanceMethodForSelector(e, this, arg)
      [] impl = "NSObject" /\ side = "-" /\ sel = "init" -> NSObject_init(e, this)
      [] impl = "NSObject" /\ side = "-" /\ sel = "retain" -> NSObject_retain(e, this)
      [] impl = "NSObject" /\ side = "-" /\ sel = "release" -> NSObject_release(e, this)
      [] impl = "NSObject" /\ side = "-" /\ sel = "autorelease" -> NSObject_autorelease(e, this)
      [] impl = "NSObject" /\ side = "-" /\ sel = "retainCount" -> NSObject_retainCount(e, this)
      [] impl = "NSObject" /\ side = "-" /\ sel = "dealloc" -> NSObject_dealloc(e, this)
      [] impl = "NSObject" /\ side = "-" /\ sel = "class" -> NSObject_class(e, this)
      [] impl = "NSObject" /\ side = "-" /\ sel = "isMemberOfClass:" ->
            NSObject_isMemberOfClass(e, this, arg)
      [] impl = "NSObject" /\ side = "-" /\ sel = "isKindOfClass:" ->
            NSObject_isKindOfClass(e, this, arg)
      [] impl = "NSObject" /\ side = "-" /\ sel = "respondsToSelector:" ->
            NSObject_respondsToSelector(e, this, arg)
      [] impl = "NSObject" /\ side = "-" /\ sel = "methodForSelector:" ->
            NSObject_methodForSelector(e, this, arg)
      [] impl = "NSObject" /\ side = "-" /\ sel = "performSelector:" ->
            NSObject_performSelector(e, this, arg)
      [] impl = "NSObject" /\ side = "-"
         /\ sel = "performSelector:onThread:withObject:waitUntilDone:" ->
            NSObject_performSelector_onThread(e, this, arg)
      [] impl = "NSObject" /\ side = "-" /\ sel = "conformsToProtocol:" ->
            NSObject_conformsToProtocol(e, this, arg)
      [] impl = "NSObject" /\ side = "-" /\ sel = "setValue:forKey:" ->
            NSObject_setValue_forKey(e, this, arg)
      [] impl = "NSObject" /\ side = "-" /\ sel = "valueForKey:" ->
            NSObject_valueForKey(e, this, arg)
      [] impl = "NSNumber" /\ side = "+" /\ sel = "numberWithInt:" ->
            NSNumber_numberWithInt(e, this, arg)
      [] impl = "Knob" /\ side = "-" -> Knob_method(e, this, sel)
      [] impl = "CALayer" /\ side = "+" /\ sel = "allocWithZone:" ->
            CALayer_allocWithZone(e, this)
      [] impl = "CALayer" /\ side = "+" /\ sel = "layer" -> CALayer_layer(e, this)
      [] impl = "CALayer" /\ side = "-" -> CALayer_method(e, this, sel, arg)
      [] impl = "UIView" /\ side = "+" /\ sel = "allocWithZone:" ->
            UIView_allocWithZone(e, this)
      [] impl = "UIView" /\ side = "+" /\ sel = "layerClass" -> UIView_layerClass(e, this)
      [] impl = "UIView" /\ side = "-" /\ sel = "init" -> UIView_init(e, this)
      [] impl = "UIView" /\ side = "-" /\ sel = "initWithFrame:" ->
            UIView_initWithFrame(e, this, arg)
      [] impl = "UIView" /\ side = "-" /\ sel = "isUserInteractionEnabled" ->
            UIView_isUserInteractionEnabled(e, this)
      [] impl = "UIView" /\ side = "-" /\ sel = "setUserInteractionEnabled:" ->
            UIView_setUserInteractionEnabled(e, this, arg)
      [] impl = "UIView" /\ side = "-" /\ sel = "superview" -> UIView_superview(e, this)
      [] impl = "UIView" /\ side = "-" /\ sel = "addSubview:" ->
            UIView_addSubview(e, this, arg)
      [] impl = "UIView" /\ side = "-" /\ sel = "bringSubviewToFront:" ->
            UIView_bringSubviewToFront(e, this, arg)
      [] impl = "UIView" /\ side = "-" /\ sel = "removeFromSuperview" ->
            UIView_removeFromSuperview(e, this)
      [] impl = "UIView" /\ side = "-" /\ sel = "dealloc" -> UIView_dealloc(e, this)
      [] impl = "UIView" /\ side = "-" /\ sel = "layer" -> UIView_layer(e, this)
      [] impl = "UIView" /\ side = "-" /\ sel = "isHidden" ->
            UIView_to_layer(e, this, "isHidden", arg)
      [] impl = "UIView" /\ side = "-" /\ sel = "setHidden:" ->
            UIView_to_layer(e, this, "setHidden:", arg)
      [] impl = "UIView" /\ side = "-" /\ sel = "alpha" ->
            UIView_to_layer(e, this, "opacity", arg)
      [] impl = "UIView" /\ side = "-" /\ sel = "setAlpha:" ->
            UIView_to_layer(e, this, "setOpacity:", arg)
      [] impl = "UIView" /\ side = "-" /\ sel = "bounds" ->
            UIView_to_layer(e, this, "bounds", arg)
      [] impl = "UIView" /\ side = "-" /\ sel = "setBounds:" ->
            UIView_to_layer(e, this, "setBounds:", arg)
      [] impl = "UIView" /\ side = "-" /\ sel = "frame" ->
            UIView_to_layer(e, this, "frame", arg)
      [] impl = "UIView" /\ side = "-" /\ sel = "setFrame:" ->
            UIView_to_layer(e, this, "setFrame:", arg)
      [] impl = "UIView" /\ side = "-" /\ sel = "pointInside:withEvent:" ->
            UIView_to_layer(e, this, "containsPoint:", arg[1])
      [] impl = "UIView" /\ side = "-" /\ sel = "hitTest:withEvent:" ->
            UIView_hitTest(e, this, arg[1], arg[2])
      [] impl = "NSBundle" /\ side = "+" /\ sel = "mainBundle" -> NSBundle_mainBundle(e, this)
      [] impl = "NSBundle" /\ side = "-" /\ sel = "dealloc" -> NSBundle_dealloc(e, this)
      [] impl = "NSBundle" /\ side = "-" /\ sel = "bundlePath" -> NSBundle_bundlePath(e, this)
      [] impl = "NSFileManager" /\ side = "+" /\ sel = "defaultManager" ->
            NSFileManager_defaultManager(e, this)
      [] impl = "NSDate" /\ side = "+" /\ sel = "allocWithZone:" -> NSDate_allocWithZone(e, this)
      [] impl = "NSDate" /\ side = "+" /\ sel = "date" -> NSDate_date(e, this)
      [] impl = "NSDate" /\ side = "-" /\ sel = "init" -> NSDate_init(e, this)
      [] impl = "NSError" /\ side = "+" /\ sel = "allocWithZone:" -> NSError_allocWithZone(e, this)
      [] impl = "NSError" /\ side = "-" /\ sel = "initWithDomain:code:userInfo:" ->
            NSError_initWithDomain(e, this, arg)
      [] impl = "NSError" /\ side = "-" /\ sel = "dealloc" -> NSError_dealloc(e, this)
      [] OTHER -> Panic(e, "method body outside the model", nil, impl, sel)

\* Read the class to start at (the receiver's class, or the class object
\* itself), walk the chain, run the first implementation found, one level
\* deeper and logged.  No class on the chain has the selector: "does not
\* understand", fatal.
objc_msgSend(e, side, target, sel, arg) ==
    IF ~Ok(e) THEN e
    ELSE LET e1 == IF side = "-" THEN read_isa(e, target) ELSE e
         IN  IF ~Ok(e1) THEN e1
             ELSE LET isa == IF side = "-" THEN e1.ret ELSE target
                      receiver == IF side = "-" THEN target ELSE nil
                      impl == lookup_method(isa, sel, side)
                  IN  IF impl = NoClass
                      THEN Panic(e, "does not understand", receiver, isa, sel)
                      ELSE [Invoke(impl, side, sel,
                                   [Note(e, impl, side, sel, receiver, isa, arg)
                                      EXCEPT !.depth = e.depth + 1],
                                   target, arg)
                              EXCEPT !.depth = e.depth]

\* ----------------------------------------------------- autorelease pools
RECURSIVE ReleaseAll(_, _)
ReleaseAll(e, members) ==
    IF members = <<>> \/ ~Ok(e) THEN e
    ELSE ReleaseAll(release(e, Head(members)), Tail(members))

\* A faulty drain: pool p and every pool above it, whatever the top is.
drain_through(e, p) ==
    IF ~Ok(e) THEN e
    ELSE LET e1 == ReleaseAll(e, e.pools[Len(e.pools)])
         IN  IF Ok(e1) THEN [e1 EXCEPT !.pools = SubSeq(@, 1, p - 1), !.ret = nil]
             ELSE e1

\* A faulty drain: the members released, the pool left on the stack.
drain_unpopped(e, p) ==
    IF ~Ok(e) THEN e
    ELSE IF p # Len(e.pools) THEN Panic(e, "drain of a pool that is not the top", p, NoClass, "")
    ELSE SetRet(ReleaseAll(e, e.pools[p]), nil)

\* drain(pool): every member released once, in the order of registration,
\* then the pool popped.  Only the top pool may be drained.
drain(e, p) ==
    IF ~Ok(e) THEN e
    ELSE IF p # Len(e.pools) THEN Panic(e, "drain of a pool that is not the top", p, NoClass, "")
    ELSE LET e1 == ReleaseAll(e, e.pools[p])
         IN  IF Ok(e1) THEN [e1 EXCEPT !.pools = SubSeq(@, 1, Len(@) - 1), !.ret = nil]
             ELSE e1

\* ---------------------------------------------------------- guest memory
\* Guest addresses are 1 .. MaxMem; 0 is the null pointer.
MemAddr == 1 .. MaxMem

NoAllocs == [a \in MemAddr |-> 0]

NoBytes == [a \in MemAddr |-> 0]

\* Width of a guest pointer, in bytes.
PtrSize == 4

\* The range [a, a + n) lies inside one live allocation.
InBounds(e, a, n) ==
    \E b \in MemAddr : e.allocs[b] > 0 /\ b <= a /\ a + n <= b + e.allocs[b]

\* An allocation of s bytes may be placed at b: the range is free, and so
\* are the byte before it and the byte after it, so that no two allocations
\* touch and the byte past the end of an allocation is never a valid one.
CanPlace(e, b, s) ==
    /\ b \in MemAddr
    /\ b + s - 1 <= MaxMem
    /\ \A a \in (b - 1) .. (b + s) : a \in MemAddr => ~InBounds(e, a, 1)

\* allocate(size), at the place the allocator picks (e.place).  The bytes of
\* memory outside the live allocations are kept at 0.
mem_alloc(e, size) ==
    IF ~Ok(e) THEN e
    ELSE IF size <= 0 \/ ~CanPlace(e, e.place, size)
    THEN Panic(e, "out of guest memory", e.place, NoClass, "")
    ELSE SetRet([e EXCEPT !.allocs[e.place] = size], e.place)

\* free(addr)
mem_free(e, a) ==
    IF ~Ok(e) THEN e
    ELSE IF a \notin MemAddr \/ e.allocs[a] = 0
    THEN Panic(e, "free of an address that is not a live allocation", a, NoClass, "")
    ELSE SetRet([e EXCEPT !.allocs[a] = 0,
                          !.bytes = [x \in MemAddr |->
                                        IF a <= x /\ x < a + e.allocs[a] THEN 0 ELSE @[x]]],
                nil)

\* bytes_at(addr, len) and bytes_at_mut(addr, len): the check of the range.
bytes_at(e, a, n) ==
    IF ~Ok(e) THEN e
    ELSE IF ~InBounds(e, a, n) THEN Panic(e, "out of bounds", a, NoClass, "")
    ELSE e

\* read<u8>(addr)
mem_read(e, a) ==
    LET e1 == bytes_at(e, a, 1)
    IN  IF Ok(e1) THEN SetRet(e1, e1.bytes[a]) ELSE e1

\* The bytes of bs stored from a on, after the check of the whole range.
write_bytes(e, a, bs) ==
    LET e1 == bytes_at(e, a, Len(bs))
    IN  IF ~Ok(e1) THEN e1
        ELSE [e1 EXCEPT !.bytes = [x \in MemAddr |->
                                      IF a <= x /\ x < a + Len(bs) THEN bs[x - a + 1] ELSE @[x]]]

\* write<u8>(addr, value)
mem_write(e, a, v) == write_bytes(e, a, <<v % 256>>)

\* A pointer as its bytes in guest memory, least significant first.
RECURSIVE to_bytes(_, _)
to_bytes(v, n) == IF n = 0 THEN <<>> ELSE <<v % 256>> \o to_bytes(v \div 256, n - 1)

RECURSIVE from_bytes(_)
from_bytes(bs) == IF bs = <<>> THEN 0 ELSE Head(bs) + 256 * from_bytes(Tail(bs))

\* write<MutPtr<T>>(addr, value)
write_ptr(e, a, p) == write_bytes(e, a, to_bytes(p, PtrSize))

\* read<MutPtr<T>>(addr)
read_ptr(e, a) ==
    LET e1 == bytes_at(e, a, PtrSize)
    IN  IF Ok(e1) THEN SetRet(e1, from_bytes([i \in 1 .. PtrSize |-> e1.bytes[a + i - 1]])) ELSE e1

\* alloc_and_write(value): a new allocation of the size of the value, holding it.
alloc_and_write(e, bs) ==
    LET e1 == mem_alloc(e, Len(bs))
    IN  IF Ok(e1) THEN SetRet(write_bytes(e1, e1.ret, bs), e1.ret) ELSE e1

\* ------------------------------------------------- variadic arguments
\* A VaList: the arguments the caller packed, the cursor, and what was taken
\* from it so far (argument index and the type it was read as).  A packed
\* argument is a 32-bit word or a double.  A word is written as the i32 with
\* its bits; read as u32 or as a pointer, a word below 0 stands for the
\* value 2^32 above it.
VaList(args) == [args |-> args, pos |-> 0, taken |-> <<>>]

NoArgs == VaList(<<>>)

Word(v) == [ty |-> "word", v |-> v]

Double(halves) == [ty |-> "f64", v |-> halves]

\* The value of a packed word read as type ty.
as_type(v, ty) ==
    CASE ty = "u8" -> v % 256
      [] ty = "unichar" -> v % 65536
      [] OTHER -> v

\* args.next::<T>(env): the argument under the cursor, read as T; the cursor
\* moves on by one argument.
va_next(e, ty) ==
    IF ~Ok(e) THEN e
    ELSE IF e.va.pos >= Len(e.va.args)
    THEN Panic(e, "read past the packed arguments", e.va.pos + 1, NoClass, ty)
    ELSE LET a == e.va.args[e.va.pos + 1]
         IN  IF (ty = "f64") # (a.ty = "f64")
             THEN Panic(e, "argument read as another type", e.va.pos + 1, NoClass, ty)
             ELSE [e EXCEPT !.ret = IF ty = "f64" THEN a.v ELSE as_type(a.v, ty),
                            !.va.pos = @ + 1,
                            !.va.taken = Append(@, [arg |-> e.va.pos + 1, as |-> ty])]

\* ------------------------------------------------------------- printf
\* The byte of an ASCII character.
B(c) ==
    CASE c = " " -> 32 [] c = "%" -> 37 [] c = "(" -> 40 [] c = ")" -> 41
      [] c = "*" -> 42 [] c = "-" -> 45 [] c = "." -> 46 [] c = "0" -> 48
      [] c = "1" -> 49 [] c = "2" -> 50 [] c = "3" -> 51 [] c = "4" -> 52
      [] c = "5" -> 53 [] c = "6" -> 54 [] c = "7" -> 55 [] c = "8" -> 56
      [] c = "9" -> 57 [] c = "@" -> 64 [] c = "C" -> 67 [] c = "X" -> 88
      [] c = "a" -> 97 [] c = "c" -> 99 [] c = "d" -> 100 [] c = "e" -> 101
      [] c = "f" -> 102 [] c = "g" -> 103 [] c = "i" -> 105 [] c = "k" -> 107
      [] c = "l" -> 108 [] c = "n" -> 110 [] c = "o" -> 111 [] c = "p" -> 112
      [] c = "s" -> 115 [] c = "u" -> 117 [] c = "x" -> 120

INTEGER_SPECIFIERS == {B("d"), B("i"), B("o"), B("u"), B("x"), B("X")}

FLOAT_SPECIFIERS == {B("f"), B("e"), B("g")}

\* The digits of n >= 0 in the given base, as bytes.
RECURSIVE digits(_, _, _)
digits(n, base, upper) ==
    LET d == n % base
        ch == IF d < 10 THEN B("0") + d
              ELSE IF upper THEN 65 + d - 10 ELSE B("a") + d - 10
    IN  IF n < base THEN <<ch>> ELSE Append(digits(n \div base, base, upper), ch)

\* The digits of hi * 65536 + lo.
RECURSIVE digits_wide(_, _, _, _)
digits_wide(hi, lo, base, upper) ==
    LET mid == (hi % base) * 65536 + lo
    IN  IF hi = 0 THEN digits(lo, base, upper)
        ELSE digits_wide(hi \div base, mid \div base, base, upper)
             \o digits(mid % base, base, upper)

\* The digits of a word read as u32.
digits_u32(v, base, upper) ==
    IF v >= 0 THEN digits(v, base, upper)
    ELSE digits_wide((v \div 65536) + 65536, v % 65536, base, upper)

\* The digits of the size of an i32.
digits_abs(v) ==
    IF v >= 0 THEN digits(v, 10, FALSE)
    ELSE LET m == -(v + 1)
         IN  IF m % 65536 = 65535 THEN digits_wide((m \div 65536) + 1, 0, 10, FALSE)
             ELSE digits_wide(m \div 65536, (m % 65536) + 1, 10, FALSE)

\* n copies of the byte ch.
fill(ch, n) == [i \in 1 .. (IF n > 0 THEN n ELSE 0) |-> ch]

\* format!("{:01$}", int, width) of the i64 made of a u32 (unsigned) or of
\* an i32: zeros between the sign and the digits.  format!("{}", int) is
\* the same with width 0.
fmt_zero(int, unsigned, width) ==
    LET put(sign, ds) == sign \o fill(B("0"), width - Len(sign) - Len(ds)) \o ds
    IN  put(IF ~unsigned /\ int < 0 THEN <<B("-")>> ELSE <<>>,
            IF unsigned THEN digits_u32(int, 10, FALSE) ELSE digits_abs(int))

\* format!("{:c>1$}", s, width): s moved to the right by copies of ch.
fmt_right(s, ch, width) == fill(ch, width - Len(s)) \o s

\* format!("{:.1$}", float, precision) for a float of so many halves, the
\* sign left out.
fmt_halves(h, precision) ==
    LET int == h \div 2
    IN  IF precision = 0
        THEN digits(IF h % 2 = 1 /\ int % 2 = 1 THEN int + 1 ELSE int, 10, FALSE)
        ELSE digits(int, 10, FALSE) \o <<B(".")>>
             \o <<IF h % 2 = 1 THEN B("0") + 5 ELSE B("0")>> \o fill(B("0"), precision - 1)

\* format!("{:1$.2$}", float, width, precision), and with zero the
\* format!("{:01$.2$}", ...) that puts zeros between the sign and the digits.
fmt_float(h, zero, width, precision) ==
    LET put(sign, ds) ==
            IF zero THEN sign \o fill(B("0"), width - Len(sign) - Len(ds)) \o ds
            ELSE fmt_right(sign \o ds, B(" "), width)
    IN  put(IF h < 0 THEN <<B("-")>> ELSE <<>>,
            fmt_halves(IF h < 0 THEN -h ELSE h, precision))

\* write!(res, "{}", char::from_u32(c).unwrap()): the UTF-8 bytes of c.
fmt_char(c) ==
    IF c < 128 THEN <<c>>
    ELSE IF c < 2048 THEN <<192 + (c \div 64), 128 + (c % 64)>>
    ELSE <<224 + (c \div 4096), 128 + ((c \div 64) % 64), 128 + (c % 64)>>

\* cstr_at(ptr): the bytes from ptr up to the terminator.
RECURSIVE cstr_at(_, _)
cstr_at(e, p) ==
    LET e1 == mem_read(e, p)
    IN  IF ~Ok(e1) THEN e1
        ELSE IF e1.ret = 0 THEN SetRet(e1, <<>>)
        ELSE LET e2 == cstr_at(e1, p + 1)
             IN  IF Ok(e2) THEN SetRet(e2, <<e1.ret>> \o e2.ret) ELSE e2

\* get_format_char of the callers: |mem, idx| mem.read(format + idx).  The
\* byte, or -1 where the read is out of bounds.
get_format_char(e, format, idx) ==
    IF InBounds(e, format + idx, 1) THEN e.bytes[format + idx] ELSE -1

\* while let c @ b'0'..=b'9' = get_format_char(idx) { n = n * 10 + (c - b'0'); idx += 1 }
RECURSIVE scan_number(_, _, _, _)
scan_number(e, format, idx, n) ==
    LET c == get_format_char(e, format, idx)
    IN  IF B("0") <= c /\ c <= B("9")
        THEN scan_number(e, format, idx + 1, n * 10 + (c - B("0")))
        ELSE [idx |-> idx, n |-> n]

\* The body of "match specifier": the argument is taken and its text is
\* left in ret.  precision < 0 stands for None.
conversion(e, NS_LOG, specifier, pad_char, pad_width, precision, length_modifier) ==
    LET asserted(ok, e1) == IF ok THEN e1 ELSE Panic(e1, "assertion failed", specifier, NoClass, "")
        plain == pad_char = B(" ") /\ pad_width = 0
    IN  CASE specifier = B("c") ->
               LET e1 == va_next(asserted(~length_modifier, e), "u8")
                   e2 == asserted(plain, e1)
               IN  SetRet(e2, <<e1.ret>>)
          [] specifier = B("C") ->
               LET e1 == va_next(asserted(~length_modifier, e), "unichar")
                   e2 == asserted(plain, e1)
               IN  IF ~Ok(e2) THEN e2
                   ELSE IF 55296 <= e1.ret /\ e1.ret <= 57343
                   THEN Panic(e2, "unwrap of None", specifier, NoClass, "")
                   ELSE SetRet(e2, fmt_char(e1.ret))
          [] specifier = B("s") ->
               LET e1 == va_next(asserted(~length_modifier, e), "ptr")
                   e2 == asserted(plain, e1)
               IN  IF ~Ok(e2) THEN e2
                   ELSE IF e1.ret # nil THEN cstr_at(e2, e1.ret)
                   ELSE SetRet(e2, <<B("("), B("n"), B("u"), B("l"), B("l"), B(")")>>)
          [] specifier \in {B("d"), B("i"), B("u")} ->
               LET result(e1, int_with_precision) ==
                       IF ~Ok(e1) THEN e1
                       ELSE IF pad_width > 0
                       THEN IF pad_char = B("0") /\ precision < 0
                            THEN SetRet(e1, fmt_right(int_with_precision, B("0"), pad_width))
                            ELSE SetRet(e1, fmt_right(int_with_precision, B(" "), pad_width))
                       ELSE SetRet(e1, int_with_precision)
                   with(e1) == result(e1, fmt_zero(e1.ret, specifier = B("u"),
                                                   IF precision > 0 THEN precision ELSE 0))
               IN  with(va_next(e, IF specifier = B("u") THEN "u32" ELSE "i32"))
          [] specifier = B("@") /\ NS_LOG ->
               LET e1 == va_next(asserted(~length_modifier, e), "id")
               IN  Panic(e1, "text outside the model", specifier, NoClass, "description")
          [] specifier = B("x") ->
               LET e1 == va_next(e, "u32")
               IN  IF Ok(e1) THEN SetRet(e1, digits_u32(e1.ret, 16, FALSE)) ELSE e1
          [] specifier = B("X") ->
               LET e1 == va_next(e, "u32")
               IN  IF Ok(e1) THEN SetRet(e1, digits_u32(e1.ret, 16, TRUE)) ELSE e1
          [] specifier = B("p") ->
               LET e1 == va_next(asserted(~length_modifier, e), "ptr")
               IN  Panic(e1, "text outside the model", specifier, NoClass, "")
          [] specifier = B("f") ->
               LET e1 == va_next(e, "f64")
               IN  IF Ok(e1)
                   THEN SetRet(e1, fmt_float(e1.ret, pad_char = B("0"), pad_width,
                                             IF precision < 0 THEN 6 ELSE precision))
                   ELSE e1
          [] specifier \in {B("e"), B("g")} ->
               LET e1 == va_next(e, "f64")
               IN  Panic(e1, "text outside the model", specifier, NoClass, "")
          [] OTHER -> Panic(e, "not implemented", specifier, NoClass, "")

\* let pad_width = ...: the argument under the cursor for '*', else the
\* digits of the format.  Left in ret with the index of the next character.
pad_width_unread(e, format, idx) ==
    IF get_format_char(e, format, idx) = B("*")
    THEN SetRet(e, [idx |-> idx + 1, n |-> 0])
    ELSE SetRet(e, scan_number(e, format, idx, 0))

pad_width_of(e, format, idx) ==
    IF get_format_char(e, format, idx) = B("*")
    THEN LET e1 == va_next(e, "i32")
         IN  IF Ok(e1) /\ e1.ret < 0 THEN Panic(e1, "assertion failed", B("*"), NoClass, "")
             ELSE SetRet(e1, [idx |-> idx + 1, n |-> e1.ret])
    ELSE SetRet(e, scan_number(e, format, idx, 0))

\* One turn of the loop of printf_inner from format_char_idx on, res being
\* the text so far.  Left in ret: the index and the text after the turn, and
\* whether the loop was left.
printf_turn(e, NS_LOG, format, format_char_idx, res) ==
    LET at(idx) == get_format_char(e, format, idx)
        going(r, idx, text) == SetRet(r, [idx |-> idx, res |-> text, done |-> FALSE])
        \* match specifier { ... }: the text of the argument is appended
        converted(e3, idx) == IF ~Ok(e3) THEN e3 ELSE going(e3, idx, res \o e3.ret)
        \* let specifier = ...; "%%"; the assertion on the precision
        specified(e2, pad_char, pad_width, precision, length_modifier, i5) ==
            IF at(i5) = -1 THEN Panic(e2, "out of bounds", format + i5, NoClass, "")
            ELSE IF at(i5) = 0 THEN Panic(e2, "assertion failed", at(i5), NoClass, "")
            ELSE IF at(i5) = B("%") THEN going(e2, i5 + 1, Append(res, B("%")))
            ELSE IF precision >= 0 /\ at(i5) \notin INTEGER_SPECIFIERS \cup FLOAT_SPECIFIERS
            THEN Panic(e2, "assertion failed", at(i5), NoClass, "")
            ELSE converted(conversion(e2, NS_LOG, at(i5), pad_char, pad_width, precision,
                                      length_modifier), i5 + 1)
        \* let length_modifier = ...
        modified(e2, pad_char, pad_width, precision, i4) ==
            specified(e2, pad_char, pad_width, precision, at(i4) = B("l"),
                      IF at(i4) = B("l") THEN i4 + 1 ELSE i4)
        \* let precision = ...: prec is the number after the '.', if there is one
        precise(e2, pad_char, pad_width, i3, prec) ==
            modified(e2, pad_char, pad_width,
                     IF at(i3) = B(".") THEN prec.n ELSE -1,
                     IF at(i3) = B(".") THEN prec.idx ELSE i3)
        \* let pad_width = ...
        padded(e2, pad_char) ==
            IF ~Ok(e2) THEN e2
            ELSE precise(e2, pad_char, e2.ret.n, e2.ret.idx,
                         scan_number(e, format, e2.ret.idx + 1, 0))
        \* let pad_char = ...
        flagged(i1) ==
            padded(pad_width_of(e, format, IF at(i1) = B("0") THEN i1 + 1 ELSE i1),
                   IF at(i1) = B("0") THEN B("0") ELSE B(" "))
    IN  IF ~Ok(e) THEN e
        ELSE IF at(format_char_idx) = -1
        THEN Panic(e, "out of bounds", format + format_char_idx, NoClass, "")
        ELSE IF at(format_char_idx) = 0
        THEN SetRet(e, [idx |-> format_char_idx + 1, res |-> res, done |-> TRUE])
        ELSE IF at(format_char_idx) # B("%")
        THEN going(e, format_char_idx + 1, Append(res, at(format_char_idx)))
        ELSE flagged(format_char_idx + 1)

\* The loop of printf_inner; the text is left in ret.
RECURSIVE printf_loop(_, _, _, _, _)
printf_loop(e, NS_LOG, format, format_char_idx, res) ==
    LET after(r) ==
            IF ~Ok(r) THEN r
            ELSE IF r.ret.done THEN SetRet(r, r.ret.res)
            ELSE printf_loop(r, NS_LOG, format, r.ret.idx, r.ret.res)
    IN  after(printf_turn(e, NS_LOG, format, format_char_idx, res))

\* printf_inner::<NS_LOG, _>(env, |mem, idx| mem.read(format + idx), args):
\* the text is left in ret, the cursor in va.
printf_inner(e, NS_LOG, format, args) ==
    IF ~Ok(e) THEN e ELSE printf_loop([e EXCEPT !.va = args], NS_LOG, format, 0, <<>>)

\* A faulty vsprintf: the slice asked for is the text without its terminator.
vsprintf_short_slice(e, dest, format, arg) ==
    LET stored(e2, res) ==
            IF Ok(e2)
            THEN [e2 EXCEPT !.bytes = [x \in MemAddr |->
                     IF dest <= x /\ x <= dest + Len(res)
                     THEN Append(res, 0)[x - dest + 1] ELSE @[x]]]
            ELSE e2
        written(e1) ==
            IF Ok(e1)
            THEN SetRet(stored(bytes_at(e1, dest, Len(e1.ret)), e1.ret), Len(e1.ret))
            ELSE e1
    IN  written(printf_inner(e, FALSE, format, arg))

vsprintf(e, dest, format, arg) ==
    LET written(e1) ==
            IF Ok(e1) THEN SetRet(write_bytes(e1, dest, Append(e1.ret, 0)), Len(e1.ret))
            ELSE e1
    IN  written(printf_inner(e, FALSE, format, arg))

\* ((n - 1) as usize) < len, n a u32.  At n = 0 the subtraction wraps to
\* u32::MAX in a build without overflow checks, and no length is above that.
n_minus_1_below(n, len) == IF n = 0 THEN FALSE ELSE n - 1 < len

\* for (i, &byte) in ... { dest_slice[i] = byte }, dest_slice being n bytes
\* from dest on: the bytes are stored one by one, and the index that is not
\* below n stops the host.
store_in_slice(e, dest, n, bs) ==
    IF ~Ok(e) THEN e
    ELSE LET stored == [e EXCEPT !.bytes = [x \in MemAddr |->
                            IF dest <= x /\ x < dest + Len(bs) /\ x < dest + n
                            THEN bs[x - dest + 1] ELSE @[x]]]
         IN  IF Len(bs) > n THEN Panic(stored, "index out of bounds", dest + n, NoClass, "")
             ELSE stored

\* overflow_checks: whether the build checks integer arithmetic (a debug
\* build does, a release build does not).
vsnprintf(e, dest, n, format, arg, overflow_checks) ==
    LET stored(e2, res, middle) ==
            SetRet(store_in_slice(bytes_at(e2, dest, n), dest, n, Append(middle, 0)),
                   Len(res))
        written(e1) ==
            IF ~Ok(e1) THEN e1
            ELSE IF n = 0 /\ overflow_checks
            THEN Panic(e1, "attempt to subtract with overflow", n, NoClass, "")
            ELSE stored(e1, e1.ret,
                        IF n_minus_1_below(n, Len(e1.ret))
                        THEN SubSeq(e1.ret, 1, n - 1) ELSE e1.ret)
    IN  written(printf_inner(e, FALSE, format, arg))

\* args is what the caller packed; args.start() is the cursor at its start.
snprintf(e, dest, n, format, args, overflow_checks) ==
    vsnprintf(e, dest, n, format, VaList(args), overflow_checks)

\* No formatted print under way.  items is what the format was made of.
NoCall == [format |-> nil, idx |-> 0, res |-> <<>>, done |-> TRUE, va |-> NoArgs,
           items |-> <<>>]

\* ------------------------------------------------------ audio components
\* struct OpaqueAudioComponentInstance { _pad: u8 } with _pad 0
OpaqueAudioComponentInstance == <<0>>

\* The status of a call that was given the null instance.
paramErr == -50

\* None of an Option.
None == "None"

\* impl Default for AudioComponentInstanceHostObject
AudioComponentInstanceHostObject_default ==
    [started |-> FALSE,
     global_stream_format |-> [sample_rate |-> 44100, bytes_per_packet |-> 4,
                               frames_per_packet |-> 1, bytes_per_frame |-> 4,
                               channels_per_frame |-> 2, bits_per_channel |-> 32],
     output_stream_format |-> None, render_callback |-> None,
     last_render_time |-> None, al_source |-> None]

\* HashMap::insert and HashMap::remove on the instance table.
insert(table, key, value) ==
    [k \in DOMAIN table \cup {key} |-> IF k = key THEN value ELSE table[k]]

remove_key(table, key) == [k \in DOMAIN table \ {key} |-> table[k]]

\* A faulty AudioComponentInstanceNew: the instance is handed out without an
\* entry in the table.
AudioComponentInstanceNew_unregistered(e, inComponent, outInstance) ==
    LET e1 == alloc_and_write(e, OpaqueAudioComponentInstance)
    IN  SetRet(write_ptr(e1, outInstance, e1.ret), 0)

AudioComponentInstanceNew(e, inComponent, outInstance) ==
    LET host_object == AudioComponentInstanceHostObject_default
        e1 == alloc_and_write(e, OpaqueAudioComponentInstance)
        guest_instance == e1.ret
        e2 == IF Ok(e1)
              THEN [e1 EXCEPT !.instances = insert(@, guest_instance, host_object)]
              ELSE e1
        e3 == write_ptr(e2, outInstance, guest_instance)
    IN  SetRet(e3, 0)

AudioComponentInstanceDispose(e, inInstance) ==
    IF ~Ok(e) THEN e
    ELSE IF inInstance = nil THEN SetRet(e, paramErr)
    ELSE LET e1 == [e EXCEPT !.instances = remove_key(@, inInstance)]
             e2 == mem_free(e1, inInstance)
         IN  SetRet(e2, 0)

\* --------------------------------------------------------- export tables
\* export_c_func!(f) in the FUNCTIONS of a module: the symbol and its target.
export_c_func(module, f) == [name |-> f, target |-> <<module, f>>]

printf_FUNCTIONS ==
    <<export_c_func("printf", "sscanf"), export_c_func("printf", "snprintf"),
      export_c_func("printf", "vprintf"), export_c_func("printf", "vsnprintf"),
      export_c_func("printf", "vsprintf"), export_c_func("printf", "sprintf"),
      export_c_func("printf", "printf"), export_c_func("printf", "fprintf")>>

\* A faulty table: sleep is not exported.
unistd_FUNCTIONS_no_sleep ==
    <<export_c_func("unistd", "usleep"), export_c_func("unistd", "getpid"),
      export_c_func("unistd", "getppid"), export_c_func("unistd", "isatty"),
      export_c_func("unistd", "access")>>

unistd_FUNCTIONS ==
    <<export_c_func("unistd", "sleep"), export_c_func("unistd", "usleep"),
      export_c_func("unistd", "getpid"), export_c_func("unistd", "getppid"),
      export_c_func("unistd", "isatty"), export_c_func("unistd", "access")>>

audio_components_FUNCTIONS ==
    <<export_c_func("audio_components", "AudioComponentFindNext"),
      export_c_func("audio_components", "AudioComponentInstanceNew"),
      export_c_func("audio_components", "AudioComponentInstanceDispose")>>

ns_file_manager_FUNCTIONS ==
    <<export_c_func("ns_file_manager", "NSHomeDirectory"),
      export_c_func("ns_file_manager", "NSSearchPathForDirectoriesInDomains")>>

\* The export lists of the modules, in the order they are searched.
FUNCTION_LISTS ==
    <<printf_FUNCTIONS, unistd_FUNCTIONS, audio_components_FUNCTIONS, ns_file_manager_FUNCTIONS>>

\* ------------------------------------------------------- symbol resolver
\* An import slot that was not bound, and the stub put into the slot of an
\* import that no table exports.
Unbound == [kind |-> "unbound", target |-> <<>>]

Stub == [kind |-> "stub", target |-> <<>>]

Bound(target) == [kind |-> "bound", target |-> target]

Duplicate == [kind |-> "duplicate", target |-> <<>>]

\* The tables that export the symbol.
Exporters(tables, sym) ==
    {i \in 1 .. Len(tables) : \E j \in 1 .. Len(tables[i]) : tables[i][j].name = sym}

\* The first entry for the symbol in the first table that has one.
first_match(tables, sym) ==
    LET i == CHOOSE i \in Exporters(tables, sym) : \A k \in Exporters(tables, sym) : i <= k
        j == CHOOSE j \in 1 .. Len(tables[i]) :
                 /\ tables[i][j].name = sym
                 /\ \A k \in 1 .. Len(tables[i]) : tables[i][k].name = sym => j <= k
    IN  tables[i][j].target

\* A faulty resolver: the first match is bound, whatever else exports it.
resolve_by_precedence(tables, sym) ==
    IF Exporters(tables, sym) = {} THEN Stub ELSE Bound(first_match(tables, sym))

\* The look-up of an imported symbol across the tables.
resolve(tables, sym) ==
    IF Exporters(tables, sym) = {} THEN Stub
    ELSE IF Cardinality(Exporters(tables, sym)) > 1 THEN Duplicate
    ELSE Bound(first_match(tables, sym))

\* No binary loaded.  pass counts the loads of the binary, next is the
\* import to bind next, prev the slots the load before ended with.
NoLink == [tables |-> <<>>, imports |-> <<>>, next |-> 1, slots |-> <<>>,
           unresolved |-> {}, pass |-> 1, prev |-> <<>>]

\* The binding of the next import of the binary.
bind_next(l) ==
    LET sym == l.imports[l.next]
        found == resolve(l.tables, sym)
    IN  [l EXCEPT !.slots[l.next] = found,
                  !.unresolved = IF found = Stub THEN @ \cup {sym} ELSE @,
                  !.next = @ + 1]

\* The binary is loaded once more against the same tables.
load_again(l) ==
    [l EXCEPT !.prev = l.slots, !.slots = [i \in DOMAIN l.imports |-> Unbound],
              !.unresolved = {}, !.next = 1, !.pass = @ + 1]

\* ---------------------------------------------------------- guest threads
Threads == {"main", "worker"}

\* A thread that has nothing to do.  ret is what its last sleep returned,
\* -1 before the first.
Idle == [status |-> "ready", todo |-> <<>>, done |-> 0, until |-> 0, ret |-> -1]

NoThreads == [t \in Threads |-> Idle]

NoSends == [initial |-> 0, retain |-> 0, release |-> 0]

\* env.sleep(duration, true): the calling thread is suspended until the
\* clock has moved on by the duration; no other thread is touched.
env_sleep(e, t, micros) ==
    IF ~Ok(e) THEN e
    ELSE [e EXCEPT !.threads[t].status = "sleeping", !.threads[t].until = e.now + micros]

\* The scheduler gives the thread back to the caller of env.sleep.
env_wake(e, t) ==
    IF ~Ok(e) THEN e ELSE [e EXCEPT !.threads[t].status = "ready"]

\* Duration::from_secs(seconds), in microseconds
from_secs(seconds) == seconds * 1000000

\* Duration::from_micros(useconds), in microseconds
from_micros(useconds) == useconds

\* sleep(seconds) up to the suspension ...
sleep(e, t, seconds) == env_sleep(e, t, from_secs(seconds))

\* A faulty sleep: what it returns is the time asked for.
sleep_returns_seconds(e, t, seconds) == [e EXCEPT !.ret = seconds, !.threads[t].ret = seconds]

\* ... and from the suspension on: the time left is 0.
sleep_returns(e, t, seconds) == [e EXCEPT !.ret = 0, !.threads[t].ret = 0]

usleep(e, t, useconds) == env_sleep(e, t, from_micros(useconds))

usleep_returns(e, t, useconds) == [e EXCEPT !.ret = 0, !.threads[t].ret = 0]

\* ------------------------------------------------ the guest's operations
\* Classes the guest instantiates here (UIView instances and their
\* hierarchy of subviews are not part of these specifications).
Instantiable == {"NSDate", "NSError"}
InstantiableOther == {"NSObject", "Widget"}
\* Arguments of initWithDomain:code:userInfo: the guest passes.
ErrorDomains == Addr \cup {nil}
ErrorCodes == {1}
ErrorUserInfos == {nil}
\* Selectors asked about in reflection queries; "frobnicate" is defined
\* by no class.
QuerySelectors == {"dealloc", "date", "frobnicate"}
\* Classes the guest names in its queries.
QueryClasses == {"NSObject", "NSError", "UIView"}
\* Selectors the guest performs through performSelector:.
PerformSelectors == {"retainCount", "frobnicate"}

Init ==
    /\ objects = [a \in Addr |-> NoEntry]
    /\ pools = <<>>
    /\ err = NoError
    /\ freed = {}
    /\ deallocs = [a \in Addr |-> 0]
    /\ allocs = NoAllocs
    /\ bytes = NoBytes
    /\ instances = NoInstances
    /\ disposed = nil
    /\ views = <<>>
    /\ owned = NoOwned
    /\ framework_state = NoFrameworkState
    /\ link = NoLink
    /\ call = NoCall
    /\ threads = NoThreads
    /\ now = 0
    /\ sends = NoSends

Running == err.kind = "none"

\* The environment a guest operation starts in.
Begin(fresh) ==
    [objects |-> objects, pools |-> pools, err |-> err, freed |-> freed, deallocs |-> deallocs,
     allocs |-> allocs, bytes |-> bytes, instances |-> instances, disposed |-> disposed,
     threads |-> threads, now |-> now, sends |-> sends, call |-> call,
     views |-> views, owned |-> owned, framework_state |-> framework_state,
     log |-> <<>>, ret |-> nil, depth |-> 0, fresh |-> fresh, place |-> nil, va |-> NoArgs]

RECURSIVE Pending(_)
Pending(ps) == IF ps = <<>> THEN 0 ELSE Len(Head(ps)) + Pending(Tail(ps))

RECURSIVE SumRefs(_, _)
SumRefs(r, n) == IF n = 0 THEN 0 ELSE r.objects[n].refcount + SumRefs(r, n - 1)

WithinBounds(r) ==
    /\ SumRefs(r, MaxAddr) <= MaxRefs
    /\ Len(r.pools) <= MaxPools
    /\ Pending(r.pools) <= MaxPending

\* The environment an operation ends in becomes the next state.  After a
\* panic the process is gone: only the panic is left.
Become(r) ==
    /\ link' = link
    /\ err' = r.err
    /\ IF Ok(r)
       THEN /\ objects' = r.objects
            /\ pools' = r.pools
            /\ freed' = r.freed
            /\ deallocs' = r.deallocs
            /\ allocs' = r.allocs
            /\ bytes' = r.bytes
            /\ instances' = r.instances
            /\ disposed' = r.disposed
            /\ threads' = r.threads
            /\ now' = r.now
            /\ sends' = r.sends
            /\ call' = r.call
            /\ views' = r.views
            /\ owned' = r.owned
            /\ framework_state' = r.framework_state
       ELSE /\ objects' = [a \in DOMAIN objects |-> NoEntry]
            /\ pools' = <<>>
            /\ freed' = {}
            /\ deallocs' = [a \in DOMAIN objects |-> 0]
            /\ views' = <<>>
            /\ owned' = [a \in DOMAIN objects |-> 0]
            /\ framework_state' = NoFrameworkState
            /\ allocs' = NoAllocs
            /\ bytes' = NoBytes
            /\ instances' = NoInstances
            /\ disposed' = nil
            /\ threads' = NoThreads
            /\ now' = 0
            /\ sends' = NoSends
            /\ call' = NoCall

Commit(r) == WithinBounds(r) /\ Become(r)

FreeAddr == {a \in Addr : objects[a].isa = NoClass}

\* [c alloc]
GuestAlloc ==
    /\ Running
    /\ \E c \in Instantiable, a \in FreeAddr : Commit(msg_class(Begin(a), c, "alloc", nil))

\* [c alloc], for the other classes
GuestAllocOther ==
    /\ Running
    /\ \E c \in InstantiableOther, a \in FreeAddr :
          Commit(msg_class(Begin(a), c, "alloc", nil))

\* [c date]
GuestDate ==
    /\ Running
    /\ \E c \in Instantiable, a \in FreeAddr : Commit(msg_class(Begin(a), c, "date", nil))

\* [a retain]
GuestRetain ==
    /\ Running
    /\ \E a \in Addr : Commit(msg_send(Begin(nil), a, "retain", nil))

\* [a release]
GuestRelease ==
    /\ Running
    /\ \E a \in Addr : Commit(msg_send(Begin(nil), a, "release", nil))

\* [a autorelease]
GuestAutorelease ==
    /\ Running
    /\ \E a \in Addr : Commit(msg_send(Begin(nil), a, "autorelease", nil))

\* [a retainCount]
GuestRetainCount ==
    /\ Running
    /\ \E a \in Addr : Commit(msg_send(Begin(nil), a, "retainCount", nil))

\* [a initWithDomain:d code:k userInfo:u]
GuestInitError ==
    /\ Running
    /\ \E a \in Addr, d \in ErrorDomains, k \in ErrorCodes, u \in ErrorUserInfos :
          Commit(msg_send(Begin(nil), a, "initWithDomain:code:userInfo:", <<d, k, u>>))

\* [a isMemberOfClass:c], [a isKindOfClass:c]
GuestClassQuery ==
    /\ Running
    /\ \E a \in Addr, s \in {"isMemberOfClass:", "isKindOfClass:"}, c \in QueryClasses :
          Commit(msg_send(Begin(nil), a, s, c))

\* [a respondsToSelector:s]
GuestRespondsTo ==
    /\ Running
    /\ \E a \in Addr, s \in QuerySelectors :
          Commit(msg_send(Begin(nil), a, "respondsToSelector:", s))

\* [a conformsToProtocol:p]
GuestConformsTo ==
    /\ Running
    /\ \E a \in Addr, p \in Protocols :
          Commit(msg_send(Begin(nil), a, "conformsToProtocol:", p))

\* [c instancesRespondToSelector:s]
GuestInstancesRespondTo ==
    /\ Running
    /\ \E c \in QueryClasses, s \in QuerySelectors :
          Commit(msg_class(Begin(nil), c, "instancesRespondToSelector:", s))

\* [a methodForSelector:s]
GuestMethodFor ==
    /\ Running
    /\ \E a \in Addr, s \in QuerySelectors :
          Commit(msg_send(Begin(nil), a, "methodForSelector:", s))

\* [c instanceMethodForSelector:s]
GuestInstanceMethodFor ==
    /\ Running
    /\ \E c \in QueryClasses, s \in QuerySelectors :
          Commit(msg_class(Begin(nil), c, "instanceMethodForSelector:", s))

\* [a performSelector:s]
GuestPerformSelector ==
    /\ Running
    /\ \E a \in Addr, s \in PerformSelectors :
          Commit(msg_send(Begin(nil), a, "performSelector:", s))

\* A new autorelease pool on top of the stack.
PushPool ==
    /\ Running
    /\ Commit(push_pool(Begin(nil)))

\* drain of pool number p of the stack.
DrainPool ==
    /\ Running
    /\ \E p \in 1 .. Len(pools) : Commit(drain(Begin(nil), p))

\* ns_date::to_date(a), as the other frameworks call it.
HostToDate ==
    /\ Running
    /\ \E a \in Addr : Commit(to_date(Begin(nil), a))

\* Object lifetime: allocation, reference counting, teardown.
Next ==
    \/ GuestAlloc
    \/ GuestRetain
    \/ GuestRelease
    \/ GuestRetainCount
    \/ GuestInitError
    \/ HostToDate

Spec == Init /\ [][Next]_vars

\* Autorelease pools.
NextPools ==
    \/ GuestDate
    \/ GuestRetain
    \/ GuestRelease
    \/ GuestAutorelease
    \/ PushPool
    \/ DrainPool

SpecPools == Init /\ [][NextPools]_vars

\* Dispatch and reflection.
NextReflect ==
    \/ GuestAlloc
    \/ GuestAllocOther
    \/ GuestRetain
    \/ GuestRelease
    \/ GuestDate
    \/ GuestClassQuery
    \/ GuestRespondsTo
    \/ GuestConformsTo
    \/ GuestInstancesRespondTo
    \/ GuestMethodFor
    \/ GuestInstanceMethodFor
    \/ GuestPerformSelector

SpecReflect == Init /\ [][NextReflect]_vars

\* ------------------------------------- guest memory and its host callers
\* The data of the guest binary: the format "%d" at DataBase.
DataBase == 1

DataFormat == <<B("%"), B("d"), 0>>

InitMem ==
    /\ objects = [a \in Addr |-> NoEntry]
    /\ pools = <<>>
    /\ err = NoError
    /\ freed = {}
    /\ deallocs = [a \in Addr |-> 0]
    /\ allocs = [NoAllocs EXCEPT ![DataBase] = Len(DataFormat)]
    /\ bytes = [a \in MemAddr |-> IF a - DataBase + 1 \in DOMAIN DataFormat
                                   THEN DataFormat[a - DataBase + 1] ELSE 0]
    /\ instances = NoInstances
    /\ disposed = nil
    /\ views = <<>>
    /\ owned = NoOwned
    /\ framework_state = NoFrameworkState
    /\ link = NoLink
    /\ call = NoCall
    /\ threads = NoThreads
    /\ now = 0
    /\ sends = NoSends

\* The environment of a call in which the allocator would pick place.
BeginAt(place) == [Begin(nil) EXCEPT !.place = place]

\* Sizes the guest allocates, addresses it passes, bytes it stores, and the
\* arguments it packs for a formatted write.
AllocSizes == {1, 2, PtrSize}

GuestPointers == 0 .. MaxMem

\* The addresses the guest frees and stores to: null and those past its data.
HeapPointers == {0} \cup ((DataBase + Len(DataFormat)) .. MaxMem)

GuestBytes == {B("0") + 5}

GuestArgs == {<<Word(5)>>}

GuestMalloc ==
    /\ Running
    /\ \E s \in AllocSizes, b \in MemAddr :
          CanPlace(Begin(nil), b, s) /\ Commit(mem_alloc(BeginAt(b), s))

GuestFree ==
    /\ Running
    /\ \E a \in HeapPointers \ DOMAIN instances : Commit(mem_free(Begin(nil), a))

GuestRead ==
    /\ Running
    /\ \E a \in GuestPointers : Commit(mem_read(Begin(nil), a))

GuestWrite ==
    /\ Running
    /\ \E a \in HeapPointers, v \in GuestBytes : Commit(mem_write(Begin(nil), a, v))

GuestAudioNew ==
    /\ Running
    /\ \E out \in HeapPointers, b \in MemAddr :
          /\ CanPlace(Begin(nil), b, Len(OpaqueAudioComponentInstance))
          /\ LET r == AudioComponentInstanceNew(BeginAt(b), nil, out)
             IN  Commit([r EXCEPT !.disposed = IF @ = b THEN nil ELSE @])

GuestAudioDispose ==
    /\ Running
    /\ \E inst \in HeapPointers :
          LET r == AudioComponentInstanceDispose(Begin(nil), inst)
          IN  Commit([r EXCEPT !.disposed = IF inst \in DOMAIN instances THEN inst ELSE @])

GuestVsprintf ==
    /\ Running
    /\ \E dest \in HeapPointers, args \in GuestArgs :
          Commit(vsprintf(Begin(nil), dest, DataBase, VaList(args)))

NextMem ==
    \/ GuestMalloc
    \/ GuestFree
    \/ GuestRead
    \/ GuestWrite
    \/ GuestAudioNew
    \/ GuestAudioDispose
    \/ GuestVsprintf

SpecMem == InitMem /\ [][NextMem]_vars

\* --------------------------------------------------- formatted output
\* The bytes of a text given character by character.
Chars(s) == [i \in 1 .. Len(s) |-> B(s[i])]

\* The string "k" in the data of the guest binary, and where the format of
\* the call is put.
StringBase == 1

StringData == <<B("k"), 0>>

FormatBase == StringBase + Len(StringData) + 1

\* Pieces of a format: the text, the arguments the caller packs for it, the
\* types they are to be read as, and the text to come out.
Items ==
    {[text |-> <<"a">>, args |-> <<>>, takes |-> <<>>, out |-> <<"a">>],
     [text |-> <<"%", "%">>, args |-> <<>>, takes |-> <<>>, out |-> <<"%">>],
     [text |-> <<"%", "d">>, args |-> <<Word(7)>>, takes |-> <<"i32">>, out |-> <<"7">>],
     [text |-> <<"%", "d">>, args |-> <<Word(-3)>>, takes |-> <<"i32">>, out |-> <<"-", "3">>],
     [text |-> <<"%", "*", "u">>, args |-> <<Word(2), Word(7)>>, takes |-> <<"i32", "u32">>,
      out |-> <<" ", "7">>],
     [text |-> <<"%", "s">>, args |-> <<Word(StringBase)>>, takes |-> <<"ptr">>, out |-> <<"k">>],
     [text |-> <<"%", "s">>, args |-> <<Word(nil)>>, takes |-> <<"ptr">>,
      out |-> <<"(", "n", "u", "l", "l", ")">>],
     [text |-> <<"%", "c">>, args |-> <<Word(B("k"))>>, takes |-> <<"u8">>, out |-> <<"k">>],
     [text |-> <<"%", "x">>, args |-> <<Word(26)>>, takes |-> <<"u32">>, out |-> <<"1", "a">>],
     [text |-> <<"%", "f">>, args |-> <<Double(3)>>, takes |-> <<"f64">>,
      out |-> <<"1", ".", "5", "0", "0", "0", "0", "0">>],
     [text |-> <<"%", "*", "%">>, args |-> <<Word(2)>>, takes |-> <<"i32">>, out |-> <<"%">>]}

\* What the first n of the items come to, field by field.
RECURSIVE Joined(_, _, _)
Joined(items, field, n) ==
    IF n = 0 THEN <<>>
    ELSE Joined(items, field, n - 1)
         \o (CASE field = "text" -> items[n].text [] field = "args" -> items[n].args
               [] field = "takes" -> items[n].takes [] OTHER -> items[n].out)

All(items, field) == Joined(items, field, Len(items))

\* The formats of up to MaxItems pieces that fit into guest memory.
Formats ==
    {items \in UNION {[1 .. n -> Items] : n \in 0 .. MaxItems} :
        FormatBase + Len(All(items, "text")) <= MaxMem}

InitPrintf ==
    /\ objects = [a \in Addr |-> NoEntry]
    /\ pools = <<>>
    /\ err = NoError
    /\ freed = {}
    /\ deallocs = [a \in Addr |-> 0]
    /\ instances = NoInstances
    /\ disposed = nil
    /\ views = <<>>
    /\ owned = NoOwned
    /\ framework_state = NoFrameworkState
    /\ link = NoLink
    /\ threads = NoThreads
    /\ now = 0
    /\ sends = NoSends
    /\ \E items \in Formats :
          LET text == Append(Chars(All(items, "text")), 0)
          IN  /\ allocs = [NoAllocs EXCEPT ![StringBase] = Len(StringData),
                                           ![FormatBase] = Len(text)]
              /\ bytes = [a \in MemAddr |->
                            IF a - StringBase + 1 \in DOMAIN StringData
                            THEN StringData[a - StringBase + 1]
                            ELSE IF a - FormatBase + 1 \in DOMAIN text
                            THEN text[a - FormatBase + 1] ELSE 0]
              /\ call = [format |-> FormatBase, idx |-> 0, res |-> <<>>, done |-> FALSE,
                         va |-> VaList(All(items, "args")), items |-> items]

\* One turn of the loop of printf_inner in the call under way.
PrintfTurn ==
    /\ Running
    /\ ~call.done
    /\ LET after(r) ==
               Commit(IF Ok(r)
                      THEN [r EXCEPT !.call = [call EXCEPT !.idx = r.ret.idx,
                                                           !.res = r.ret.res,
                                                           !.done = r.ret.done, !.va = r.va]]
                      ELSE r)
       IN  after(printf_turn([Begin(nil) EXCEPT !.va = call.va], FALSE, call.format,
                             call.idx, call.res))

NextPrintf == PrintfTurn

SpecPrintf == InitPrintf /\ [][NextPrintf]_vars

\* ---------------------------------------------------- load of a binary
\* Symbols a guest binary imports; frobnicate is exported by no module.
ImportNames ==
    {"sleep", "usleep", "printf", "vsprintf", "AudioComponentInstanceNew",
     "NSHomeDirectory", "frobnicate"}

\* The import lists of up to MaxImports symbols, none twice.
ImportLists ==
    {l \in UNION {[1 .. n -> ImportNames] : n \in 0 .. MaxImports} :
        \A i, j \in DOMAIN l : l[i] = l[j] => i = j}

\* What the modules outside these sources add to the tables: nothing, or a
\* table that exports sleep as well.
OtherLists == {<<>>, <<<<export_c_func("other", "sleep")>>>>}

InitLink ==
    /\ objects = [a \in Addr |-> NoEntry]
    /\ pools = <<>>
    /\ err = NoError
    /\ freed = {}
    /\ deallocs = [a \in Addr |-> 0]
    /\ allocs = NoAllocs
    /\ bytes = NoBytes
    /\ instances = NoInstances
    /\ disposed = nil
    /\ views = <<>>
    /\ owned = NoOwned
    /\ framework_state = NoFrameworkState
    /\ threads = NoThreads
    /\ now = 0
    /\ sends = NoSends
    /\ call = NoCall
    /\ \E imports \in ImportLists, other \in OtherLists :
          link = [NoLink EXCEPT !.tables = FUNCTION_LISTS \o other, !.imports = imports,
                                !.slots = [i \in DOMAIN imports |-> Unbound]]

\* The variables a load leaves alone.
runtime == <<objects, pools, freed, deallocs, allocs, bytes, instances, disposed,
             threads, now, sends, call, views, owned, framework_state>>

\* The resolver binds the next import, or reports it as exported twice.
Bind ==
    /\ Running
    /\ link.next <= Len(link.imports)
    /\ LET l == bind_next(link)
       IN  IF l.slots[link.next] = Duplicate
           THEN /\ err' = [kind |-> "duplicate export", obj |-> link.next, cls |-> NoClass,
                           sel |-> link.imports[link.next]]
                /\ link' = link
           ELSE /\ err' = err
                /\ link' = l
    /\ UNCHANGED runtime

Reload ==
    /\ Running
    /\ link.next > Len(link.imports)
    /\ link.pass < MaxLoads
    /\ link' = load_again(link)
    /\ UNCHANGED <<runtime, err>>

NextLink == Bind \/ Reload

SpecLink == InitLink /\ [][NextLink]_vars

\* ------------------------------------------------ several guest threads
\* The object the threads share, and the byte of guest memory they store to.
SharedObject == 1

SharedByte == 1

\* What a thread does, one call after the other.
Programs ==
    {<<"retain", "release">>, <<"release">>, <<"release", "release">>,
     <<"sleep", "release">>, <<"retain", "usleep">>, <<"write", "retain">>}

\* The times the threads sleep for, and the step of the host clock.
SleepSeconds == 1

SleepMicros == 500000

Quantum == 500000

InitThreads ==
    /\ \E n \in 1 .. 2 :
          /\ objects = [a \in Addr |-> IF a = SharedObject
                                        THEN [isa |-> "NSObject", refcount |-> n, host |-> TrivialHostObject]
                                        ELSE NoEntry]
          /\ sends = [NoSends EXCEPT !.initial = n]
    /\ pools = <<>>
    /\ err = NoError
    /\ freed = {}
    /\ deallocs = [a \in Addr |-> 0]
    /\ allocs = [NoAllocs EXCEPT ![SharedByte] = 1]
    /\ bytes = NoBytes
    /\ instances = NoInstances
    /\ disposed = nil
    /\ views = <<>>
    /\ owned = NoOwned
    /\ framework_state = NoFrameworkState
    /\ link = NoLink
    /\ call = NoCall
    /\ threads \in [Threads -> {[Idle EXCEPT !.todo = p] : p \in Programs}]
    /\ now = 0

\* The thread can make its next call, and the call is op.
Next_op(t, ops) ==
    /\ Running
    /\ threads[t].status = "ready"
    /\ threads[t].todo # <<>>
    /\ Head(threads[t].todo) \in ops

\* The call of the thread has returned.
Returned(r, t) ==
    IF Ok(r) THEN [r EXCEPT !.threads[t].todo = Tail(@), !.threads[t].done = @ + 1] ELSE r

ThreadSend(t) ==
    /\ Next_op(t, {"retain", "release"})
    /\ LET op == Head(threads[t].todo)
           r == msg_send(Begin(nil), SharedObject, op, nil)
       IN  Commit(Returned(IF Ok(r) THEN [r EXCEPT !.sends[op] = @ + 1] ELSE r, t))

ThreadWrite(t) ==
    /\ Next_op(t, {"write"})
    /\ \E v \in GuestBytes : Commit(Returned(mem_write(Begin(nil), SharedByte, v), t))

ThreadSleep(t) ==
    /\ Next_op(t, {"sleep", "usleep"})
    /\ LET r == IF Head(threads[t].todo) = "sleep"
                THEN sleep(Begin(nil), t, SleepSeconds)
                ELSE usleep(Begin(nil), t, SleepMicros)
       IN  r.threads[t].until <= MaxQuanta * Quantum /\ Commit(r)

ThreadResume(t) ==
    /\ Running
    /\ threads[t].status = "sleeping"
    /\ now >= threads[t].until
    /\ LET r == env_wake(Begin(nil), t)
       IN  Commit(Returned(IF Head(threads[t].todo) = "sleep"
                           THEN sleep_returns(r, t, SleepSeconds)
                           ELSE usleep_returns(r, t, SleepMicros), t))

TimePasses ==
    /\ Running
    /\ now + Quantum <= MaxQuanta * Quantum
    /\ now' = now + Quantum
    /\ UNCHANGED <<objects, pools, err, freed, deallocs, allocs, bytes, instances, disposed,
                   threads, sends, call, link, views, owned, framework_state>>

NextThreads ==
    \/ \E t \in Threads : ThreadSend(t)
    \/ \E t \in Threads : ThreadWrite(t)
    \/ \E t \in Threads : ThreadSleep(t)
    \/ \E t \in Threads : ThreadResume(t)
    \/ TimePasses

SpecThreads == InitThreads /\ [][NextThreads]_vars

\* The clock runs, and a thread whose time has come is given the processor.
SpecThreadsFair ==
    /\ SpecThreads
    /\ WF_vars(TimePasses)
    /\ \A t \in Threads : WF_vars(ThreadResume(t))

\* ========================================================== properties
\* The environment of the current state, before any operation.
Env == Begin(nil)

IsRelease(ev) == ev.side = "-" /\ ev.sel = "release"
IsDealloc(ev) == ev.side = "-" /\ ev.sel = "dealloc"
DepthIs0(ev) == ev.depth = 0
\* The bodies run by the operation itself, without those of nested sends.
TopLevel(l) == SelectSeq(l, DepthIs0)
AllocClasses == Instantiable \cup InstantiableOther

\* In a log: a dealloc body starts only right after the release body of the
\* same receiver that found the count at 1, with the count at 0 by then, and
\* at most once per receiver; such a release is always followed by it.
DeallocDiscipline(l) ==
    /\ \A i \in 1 .. Len(l) : IsDealloc(l[i]) =>
          /\ l[i].rc = 0
          /\ i > 1
          /\ IsRelease(l[i - 1])
          /\ l[i - 1].recv = l[i].recv
          /\ l[i - 1].rc = 1
          /\ l[i - 1].depth + 1 = l[i].depth
          /\ \A j \in 1 .. Len(l) : (j # i /\ IsDealloc(l[j])) => l[j].recv # l[i].recv
    /\ \A i \in 1 .. Len(l) : (IsRelease(l[i]) /\ l[i].rc = 1) =>
          /\ i < Len(l)
          /\ IsDealloc(l[i + 1])
          /\ l[i + 1].recv = l[i].recv
    /\ \A i \in 1 .. Len(l) : (IsRelease(l[i]) /\ l[i].rc > 1) =>
          (i < Len(l) => ~IsDealloc(l[i + 1]))

\* C1, creation: alloc and allocWithZone: return a new entry with count 1
\* and leave every other entry alone.
C1_Creation ==
    \A c \in AllocClasses, a \in FreeAddr, s \in {"alloc", "allocWithZone:"} :
        LET r == msg_class(Begin(a), c, s, nil)
        IN  /\ Ok(r)
            /\ r.ret = a
            /\ r.objects[a].isa = c
            /\ r.objects[a].refcount = 1
            /\ r.deallocs[a] = 0
            /\ \A b \in Addr \ {a} : r.objects[b] = objects[b]

\* C1, retain: the count of the receiver goes up by exactly 1, no dealloc.
C1_Retain ==
    \A a \in Addr : InTable(Env, a) =>
        LET r == msg_send(Env, a, "retain", nil)
        IN  /\ Ok(r)
            /\ r.ret = a
            /\ r.objects[a] = [objects[a] EXCEPT !.refcount = @ + 1]
            /\ \A b \in Addr \ {a} : r.objects[b] = objects[b]
            /\ r.deallocs = deallocs
            /\ \A i \in 1 .. Len(r.log) : ~IsDealloc(r.log[i])

\* C1, release: above 1 the count goes down by exactly 1 and nothing else
\* happens; at 1 the dealloc of the receiver runs, and when it returns the
\* entry is gone.  Whatever the receiver, the log keeps the discipline.
C1_Release ==
    \A a \in Addr :
        LET r == msg_send(Env, a, "release", nil)
        IN  /\ DeallocDiscipline(r.log)
            /\ (InTable(Env, a) /\ objects[a].refcount > 1) =>
                  /\ Ok(r)
                  /\ r.objects[a] = [objects[a] EXCEPT !.refcount = @ - 1]
                  /\ \A b \in Addr \ {a} : r.objects[b] = objects[b]
                  /\ r.deallocs = deallocs
                  /\ Len(r.log) = 1
            /\ (InTable(Env, a) /\ objects[a].refcount = 1) =>
                  /\ Len(r.log) >= 2
                  /\ IsDealloc(r.log[2]) /\ r.log[2].recv = a
                  /\ r.deallocs[a] = 1
                  /\ Ok(r) => (~InTable(r, a) /\ a \in r.freed)

\* C1, over the life of an object: no dealloc has run on an object in the
\* table, exactly one on an object that was torn down.
C1_Once ==
    \A a \in Addr :
        /\ InTable(Env, a) => (deallocs[a] = 0 /\ objects[a].refcount >= 1)
        /\ ~InTable(Env, a) => deallocs[a] = (IF a \in freed THEN 1 ELSE 0)

\* C1: an object starts with count 1, retain adds exactly 1, release takes
\* exactly 1 away, and dealloc runs exactly once in the life of an object,
\* at the release that takes the count from 1 to 0 and at no other time.
C1_RefcountLifecycle ==
    Running => (C1_Creation /\ C1_Retain /\ C1_Release /\ C1_Once)

\* An object was retained to 2 and another was released to 0 and torn down.
C1_Witness ==
    /\ Running
    /\ \E a, b \in Addr :
          /\ a \in freed /\ ~InTable(Env, a) /\ deallocs[a] = 1
          /\ InTable(Env, b) /\ objects[b].refcount = 2

\* C2: on a live object retain followed at once by release gives back the
\* retainCount there was and deallocates nothing; no count is negative, and
\* the count of an object in the table is at least 1 between operations.
C2_RetainThenRelease ==
    Running => \A a \in Addr :
        /\ objects[a].refcount \in Nat
        /\ InTable(Env, a) =>
              LET c0 == msg_send(Env, a, "retainCount", nil)
                  r1 == msg_send(Env, a, "retain", nil)
                  r2 == msg_send(r1, a, "release", nil)
                  c2 == msg_send(r2, a, "retainCount", nil)
              IN  /\ Ok(c2)
                  /\ c0.ret = objects[a].refcount
                  /\ c0.ret >= 1
                  /\ r1.objects[a].refcount = c0.ret + 1
                  /\ c2.ret = c0.ret
                  /\ InTable(r2, a)
                  /\ r2.objects = objects
                  /\ r2.pools = pools
                  /\ r2.freed = freed
                  /\ r2.deallocs = deallocs
                  /\ \A i \in 1 .. Len(r2.log) : ~IsDealloc(r2.log[i])

\* An object pending in a pool has been retained to 2.
C2_Witness ==
    /\ Running
    /\ pools # <<>>
    /\ \E a \in Addr, i \in 1 .. Len(pools[Len(pools)]) :
          /\ pools[Len(pools)][i] = a
          /\ InTable(Env, a)
          /\ objects[a].refcount = 2

\* C3: a release through the address of an object that was released to zero
\* and torn down is reported as an error naming that address: no count
\* changes and no dealloc runs.
C3_DoubleReleaseReported ==
    Running => \A a \in freed :
        LET r == msg_send(Env, a, "release", nil)
        IN  /\ ~Ok(r)
            /\ r.err.obj = a
            /\ r.objects = objects
            /\ \A i \in 1 .. Len(r.log) : ~IsDealloc(r.log[i])

\* C4: every use of the address of an object that was torn down is detected
\* as an error, also once later allocations have been made.
C4_StaleAddressDetected ==
    Running => \A a \in freed :
        /\ ~Ok(to_date(Env, a))
        /\ ~Ok(get_refcount(Env, a))
        /\ ~Ok(msg_send(Env, a, "retain", nil))
        /\ ~Ok(msg_send(Env, a, "retainCount", nil))
        /\ ~Ok(msg_send(Env, a, "class", nil))

\* impl is the most derived class on the chain of c that defines sel.
MostDerived(c, sel, side, impl) ==
    /\ impl \in Ancestors(c)
    /\ sel \in MethodTable(impl, side)
    /\ \A d \in Ancestors(c) : sel \in MethodTable(d, side) => d \in Ancestors(impl)

DefinedOnChain(c, sel, side) == \E d \in Ancestors(c) : sel \in MethodTable(d, side)

DispatchSelectors ==
    {"dealloc", "allocWithZone:", "alloc", "init", "date", "retain", "release",
     "layerClass", "frobnicate"}

\* The class whose allocWithZone: and dealloc an instance of c must get.
ExpectedAllocator(c) ==
    CASE c = "NSDate" -> "NSDate"
      [] c \in {"NSError", "Widget"} -> "NSError"
      [] c = "UIView" -> "UIView"
      [] c = "CALayer" -> "CALayer"
      [] OTHER -> "NSObject"
ExpectedDeallocator(c) ==
    CASE c \in {"NSError", "Widget"} -> "NSError"
      [] c = "UIView" -> "UIView"
      [] c = "NSBundle" -> "NSBundle"
      [] OTHER -> "NSObject"
ExpectedHost(c) ==
    CASE c = "NSDate" -> "NSDateHostObject"
      [] c \in {"NSError", "Widget"} -> "ErrorHostObject"
      [] OTHER -> "TrivialHostObject"

\* C5: a send runs the implementation of the most derived class on the
\* receiver's chain that defines the selector, not an ancestor's: dealloc of
\* NSError and UIView, allocWithZone: of NSDate, also through a subclass.
C5_MostDerivedOverride ==
    Running =>
        /\ \A c \in Classes, sel \in DispatchSelectors, side \in {"+", "-"} :
              IF DefinedOnChain(c, sel, side)
              THEN MostDerived(c, sel, side, lookup_method(c, sel, side))
              ELSE lookup_method(c, sel, side) = NoClass
        /\ \A c \in Classes :
              /\ lookup_method(c, "dealloc", "-") = ExpectedDeallocator(c)
              /\ lookup_method(c, "allocWithZone:", "+") = ExpectedAllocator(c)
        /\ \A c \in AllocClasses, a \in FreeAddr :
              LET r == msg_class(Begin(a), c, "alloc", nil)
              IN  /\ Ok(r)
                  /\ Len(r.log) = 2
                  /\ r.log[1].impl = "NSObject" /\ r.log[1].sel = "alloc"
                  /\ r.log[2].impl = ExpectedAllocator(c)
                  /\ r.log[2].sel = "allocWithZone:"
                  /\ r.objects[a].host.type = ExpectedHost(c)
        /\ \A a \in Addr : InTable(Env, a) =>
              LET r == msg_send(Env, a, "release", nil)
              IN  /\ \A i \in 1 .. Len(r.log) :
                        MostDerived(r.log[i].cls, r.log[i].sel, r.log[i].side,
                                    r.log[i].impl)
                  /\ objects[a].refcount = 1 =>
                        /\ Len(r.log) >= 2
                        /\ r.log[2].sel = "dealloc"
                        /\ r.log[2].recv = a
                        /\ r.log[2].impl = ExpectedDeallocator(objects[a].isa)

\* An NSDate made by NSDate's allocWithZone: and an instance of the guest's
\* subclass of NSError made by NSError's allocWithZone: are in the table.
C5_Witness ==
    /\ Running
    /\ \E a, b \in Addr :
          /\ objects[a].isa = "NSDate"
          /\ objects[a].host.type = "NSDateHostObject"
          /\ objects[b].isa = "Widget"
          /\ objects[b].host.type = "ErrorHostObject"

\* The state of objects and pools of an environment is that of now.
SameState(r) ==
    /\ r.objects = objects
    /\ r.pools = pools
    /\ r.freed = freed
    /\ r.deallocs = deallocs

\* C6: a selector that no class on the receiver's chain defines makes the
\* send, methodForSelector: and instanceMethodForSelector: fail with a panic
\* that names the class and the selector; no body runs for the selector and
\* no object or count changes.
C6_DoesNotUnderstand ==
    Running =>
        /\ \A a \in Addr, s \in QuerySelectors :
              (InTable(Env, a) /\ ~DefinedOnChain(objects[a].isa, s, "-")) =>
                  LET r == msg_send(Env, a, s, nil)
                      m == msg_send(Env, a, "methodForSelector:", s)
                      q == msg_send(Env, a, "performSelector:", s)
                  IN  /\ r.err = [kind |-> "does not understand", obj |-> a,
                                  cls |-> objects[a].isa, sel |-> s]
                      /\ r.log = <<>>
                      /\ SameState(r)
                      /\ m.err.kind = "unable to lookup method"
                      /\ m.err.cls = objects[a].isa
                      /\ m.err.sel = s
                      /\ Len(m.log) = 1
                      /\ SameState(m)
                      /\ q.err = r.err
                      /\ Len(q.log) = 1
                      /\ SameState(q)
        /\ \A c \in Classes, s \in QuerySelectors :
              /\ ~DefinedOnChain(c, s, "+") =>
                    LET r == msg_class(Env, c, s, nil)
                    IN  /\ r.err = [kind |-> "does not understand", obj |-> nil,
                                    cls |-> c, sel |-> s]
                        /\ r.log = <<>>
                        /\ SameState(r)
              /\ ~DefinedOnChain(c, s, "-") =>
                    LET m == msg_class(Env, c, "instanceMethodForSelector:", s)
                    IN  /\ m.err.kind = "unable to lookup method"
                        /\ m.err.cls = c
                        /\ m.err.sel = s
                        /\ Len(m.log) = 1
                        /\ SameState(m)

\* The process ended on an instance that does not understand "frobnicate".
C6_Witness ==
    /\ err.kind = "does not understand"
    /\ err.sel = "frobnicate"
    /\ err.obj \in Addr
    /\ err.cls \in Classes

\* C7: [a isKindOfClass:D] is true exactly for the classes D on the chain of
\* the class of a, the class itself and its ancestors up to the root.
C7_IsKindOfClass ==
    Running => \A a \in Addr, D \in Classes : InTable(Env, a) =>
        LET r == msg_send(Env, a, "isKindOfClass:", D)
        IN  /\ Ok(r)
            /\ r.ret \in BOOLEAN
            /\ r.ret <=> (D \in Ancestors(objects[a].isa))

\* An instance of the guest's subclass, two steps below the root, is in the
\* table next to an NSDate.
C7_Witness ==
    /\ Running
    /\ \E a, b \in Addr :
          /\ objects[a].isa = "Widget"
          /\ objects[b].isa = "NSDate"
          /\ Ancestors(objects[a].isa) = {"Widget", "NSError", "NSObject"}

\* The queries of C8 and the arguments they are asked with.
QueryArgs(q) ==
    CASE q \in {"isMemberOfClass:", "isKindOfClass:"} -> Classes
      [] q = "conformsToProtocol:" -> Protocols
      [] OTHER -> QuerySelectors
InstanceQueries ==
    {"isMemberOfClass:", "isKindOfClass:", "conformsToProtocol:", "respondsToSelector:"}

\* What the class c of an object makes of query q with argument x.
AnswerOfClass(c, q, x) ==
    CASE q = "isMemberOfClass:" -> x = c
      [] q = "isKindOfClass:" -> x \in Ancestors(c)
      [] q = "conformsToProtocol:" -> \E d \in Ancestors(c) : x \in AdoptedProtocols(d)
      [] OTHER -> DefinedOnChain(c, x, "-")

\* Asking changes nothing, asking again gives the same answer, and the
\* answer is a matter of the class and the argument alone.
C8_Pure ==
    Running =>
        /\ \A a \in Addr, q \in InstanceQueries : \A x \in QueryArgs(q) :
              InTable(Env, a) =>
                  LET r1 == msg_send(Env, a, q, x)
                      r2 == msg_send(r1, a, q, x)
                  IN  /\ Ok(r1) /\ Ok(r2)
                      /\ r1.ret = AnswerOfClass(objects[a].isa, q, x)
                      /\ r2.ret = r1.ret
                      /\ SameState(r1) /\ SameState(r2)
        /\ \A c \in Classes, s \in QuerySelectors :
              LET r1 == msg_class(Env, c, "instancesRespondToSelector:", s)
                  r2 == msg_class(r1, c, "instancesRespondToSelector:", s)
              IN  /\ Ok(r1) /\ Ok(r2)
                  /\ r1.ret = DefinedOnChain(c, s, "-")
                  /\ r2.ret = r1.ret
                  /\ SameState(r1) /\ SameState(r2)

\* Whatever happens, an object that stays in the table keeps its class.
C8_ClassKept ==
    \A a \in Addr :
        (objects[a].isa # NoClass /\ objects'[a].isa # NoClass) =>
            objects'[a].isa = objects[a].isa

\* C8: isMemberOfClass:, isKindOfClass:, conformsToProtocol:,
\* respondsToSelector: and +instancesRespondToSelector: change no object, no
\* count and no pool, and their answers for an object or a class stay the
\* same however often they are asked and whatever happens in between.
C8_QueriesPureAndStable == []C8_Pure /\ [][C8_ClassKept]_vars

\* Two objects of different classes, one of them retained, are there to be
\* asked.
C8_Witness ==
    /\ Running
    /\ \E a, b \in Addr :
          /\ objects[a].isa = "NSError" /\ objects[a].refcount = 2
          /\ objects[b].isa = "NSDate"

\* ---------------------------------------------------------------- pools
IsTopRelease(ev) == IsRelease(ev) /\ ev.depth = 0
\* The receivers of the releases an operation sent itself, in order.
ReleasesSent(l) ==
    LET t == SelectSeq(l, IsTopRelease) IN [i \in 1 .. Len(t) |-> t[i].recv]
IsPrefix(u, t) == Len(u) <= Len(t) /\ u = SubSeq(t, 1, Len(u))
Count(b, members) == Cardinality({i \in 1 .. Len(members) : members[i] = b})
Top == pools[Len(pools)]

\* C9: autorelease returns its receiver, leaves every count alone and adds
\* one entry for it to the innermost pool; +date returns an object of count
\* 1 registered that way; nothing but the drain of the pool sends the
\* releases, one for each entry, in the order of registration.
C9_AutoreleaseDeferred ==
    (Running /\ pools # <<>>) =>
        /\ \A a \in Addr : InTable(Env, a) =>
              LET r == msg_send(Env, a, "autorelease", nil)
              IN  /\ Ok(r)
                  /\ r.ret = a
                  /\ r.objects = objects
                  /\ r.deallocs = deallocs
                  /\ r.pools = [pools EXCEPT ![Len(pools)] = Append(@, a)]
                  /\ \A i \in 1 .. Len(r.log) :
                        ~IsRelease(r.log[i]) /\ ~IsDealloc(r.log[i])
        /\ \A a \in FreeAddr :
              LET r == msg_class(Begin(a), "NSDate", "date", nil)
              IN  /\ Ok(r)
                  /\ r.ret = a
                  /\ r.objects[a].refcount = 1
                  /\ r.pools = [pools EXCEPT ![Len(pools)] = Append(@, a)]
                  /\ \A i \in 1 .. Len(r.log) : ~IsRelease(r.log[i])
        /\ \A a \in Addr :
              LET r == msg_send(Env, a, "retain", nil)
                  d == msg_send(Env, a, "release", nil)
              IN  /\ Ok(r) => r.pools = pools
                  /\ Ok(d) => d.pools = pools
        /\ LET r == push_pool(Env)
           IN  r.pools = Append(pools, <<>>) /\ r.log = <<>> /\ r.objects = objects
        /\ LET r == drain(Env, Len(pools))
               sent == ReleasesSent(r.log)
           IN  IF Ok(r) THEN sent = Top ELSE IsPrefix(sent, Top) /\ sent # Top

\* An object retained to 2 was autoreleased twice into the same pool.
C9_Witness ==
    /\ Running
    /\ pools # <<>>
    /\ \E a \in Addr :
          /\ Top = <<a, a>>
          /\ InTable(Env, a)
          /\ objects[a].refcount = 2

\* C10: pools form a stack.  A new pool goes on top; autorelease registers
\* with the top pool and leaves the pools below alone; the drain of the top
\* pool releases its members and nothing registered below, and takes only
\* that pool away; no pool but the top can be drained.
C10_PoolsNest ==
    Running =>
        /\ push_pool(Env).pools = Append(pools, <<>>)
        /\ \A a \in Addr : InTable(Env, a) /\ pools # <<>> =>
              LET r == msg_send(Env, a, "autorelease", nil)
              IN  /\ Len(r.pools) = Len(pools)
                  /\ \A i \in 1 .. Len(pools) - 1 : r.pools[i] = pools[i]
                  /\ r.pools[Len(pools)] = Append(Top, a)
        /\ \A p \in 1 .. Len(pools) :
              LET r == drain(Env, p)
              IN  IF p = Len(pools)
                  THEN /\ IsPrefix(ReleasesSent(r.log), pools[p])
                       /\ Ok(r) =>
                             /\ ReleasesSent(r.log) = pools[p]
                             /\ r.pools = SubSeq(pools, 1, p - 1)
                             /\ \A b \in Addr :
                                   Count(b, pools[p]) = 0 => r.objects[b] = objects[b]
                  ELSE /\ ~Ok(r)
                       /\ r.err.kind = "drain of a pool that is not the top"
                       /\ r.log = <<>>
                       /\ SameState(r)

\* Two pools are nested; an object was registered with the outer one
\* before the inner one was made, and another with the inner one.
C10_Witness ==
    /\ Running
    /\ Len(pools) = 2
    /\ \E a, b \in Addr :
          /\ a # b
          /\ pools = << <<a>>, <<b>> >>
          /\ InTable(Env, a) /\ InTable(Env, b)

\* C11: the drain of the top pool sends one release per registration, in the
\* order of registration, so that every member loses as many references as
\* it has registrations (and is torn down when that was all it had), and
\* then takes the pool off the stack; the drain of any other pool is an
\* error naming the pool, which sends nothing and leaves the stack alone.
C11_DrainTopInOrder ==
    Running => \A p \in 1 .. Len(pools) :
        LET r == drain(Env, p)
            sent == ReleasesSent(r.log)
        IN  IF p = Len(pools)
            THEN /\ Ok(r) =>
                      /\ sent = pools[p]
                      /\ Len(r.pools) = Len(pools) - 1
                      /\ \A i \in 1 .. Len(r.pools) : r.pools[i] = pools[i]
                      /\ \A b \in Addr :
                            LET n == Count(b, pools[p])
                            IN  IF n = 0 THEN r.objects[b] = objects[b]
                                ELSE IF n < objects[b].refcount
                                THEN r.objects[b] = [objects[b] EXCEPT !.refcount = @ - n]
                                ELSE ~InTable(r, b) /\ b \in r.freed
                 /\ ~Ok(r) =>
                      /\ IsPrefix(sent, pools[p])
                      /\ Len(sent) < Len(pools[p])
                      /\ r.err.obj = pools[p][Len(sent) + 1]
            ELSE /\ r.err = [kind |-> "drain of a pool that is not the top",
                             obj |-> p, cls |-> NoClass, sel |-> ""]
                 /\ sent = <<>>
                 /\ r.pools = pools
                 /\ r.objects = objects

\* Below a pool that holds two different objects in the table there is
\* another pool.
C11_Witness ==
    /\ Running
    /\ Len(pools) = 2
    /\ \E a, b \in Addr :
          /\ a # b
          /\ pools[2] = <<a, b>>
          /\ InTable(Env, a) /\ InTable(Env, b)

\* The live allocations of a state.
Live == {b \in MemAddr : allocs[b] > 0}

OutOfBounds(r, a) == r.err = [kind |-> "out of bounds", obj |-> a, cls |-> NoClass, sel |-> ""]

\* r differs from the state at most in the bytes of the range [a, a + n).
StoresWithin(r, a, n) ==
    /\ r.allocs = allocs
    /\ \A x \in MemAddr : (x < a \/ x >= a + n) => r.bytes[x] = bytes[x]

\* Reads and writes of one byte at a succeed, the write storing the byte and
\* nothing else.
Accessible(r, a) ==
    /\ Ok(mem_read(r, a)) /\ mem_read(r, a).ret = r.bytes[a]
    /\ \A v \in GuestBytes :
          LET w == mem_write(r, a, v)
          IN  Ok(w) /\ w.bytes = [r.bytes EXCEPT ![a] = v] /\ w.allocs = r.allocs

\* Reads and writes of one byte at a fail as out of bounds and change nothing.
Rejected(r, a) ==
    /\ OutOfBounds(mem_read(r, a), a)
    /\ \A v \in GuestBytes :
          LET w == mem_write(r, a, v)
          IN  OutOfBounds(w, a) /\ w.bytes = r.bytes /\ w.allocs = r.allocs

NotLive(r, a) ==
    r.err = [kind |-> "free of an address that is not a live allocation", obj |-> a,
             cls |-> NoClass, sel |-> ""]

\* C13: the free of an address that is not a live allocation and the access
\* to a freed range are errors that leave the allocation table as it was,
\* and so is AudioComponentInstanceDispose of an instance that was disposed
\* of before: it does not return status 0.
C13_FreedIsDetected ==
    Running =>
        /\ \A a \in GuestPointers \ Live :
              NotLive(mem_free(Env, a), a) /\ mem_free(Env, a).allocs = allocs
        /\ \A a \in GuestPointers : ~InBounds(Env, a, 1) => Rejected(Env, a)
        /\ disposed # nil =>
              LET r == AudioComponentInstanceDispose(Env, disposed)
              IN  ~Ok(r) /\ r.allocs = allocs

\* References on the shared object that are due: those it started with, plus
\* the retains, minus the releases the threads have delivered.
Due == sends.initial + sends.retain - sends.release

\* C14: however the retains and releases of the threads interleave, none is
\* lost: the count of the shared object is the count it started with plus
\* the retains minus the releases delivered; dealloc has not run while
\* references are due and has run once, on the release that took the last
\* one, when none is.
C14_NoLostUpdate ==
    Running =>
        /\ Due >= 0
        /\ Due > 0 => /\ InTable(Env, SharedObject)
                      /\ objects[SharedObject].refcount = Due
                      /\ deallocs[SharedObject] = 0
        /\ Due = 0 => /\ ~InTable(Env, SharedObject)
                      /\ deallocs[SharedObject] = 1
                      /\ SharedObject \in freed
        /\ \A t \in Threads :
              threads[t].status = "ready" /\ threads[t].todo # <<>>
              /\ Head(threads[t].todo) \in {"retain", "release"} /\ Due > 0 =>
                LET op == Head(threads[t].todo)
                    r == msg_send(Env, SharedObject, op, nil)
                    deallocated == Len(SelectSeq(r.log, IsDealloc))
                IN  /\ Ok(r)
                    /\ op = "retain" => r.objects[SharedObject].refcount = Due + 1 /\ deallocated = 0
                    /\ op = "release" /\ Due > 1 =>
                          r.objects[SharedObject].refcount = Due - 1 /\ deallocated = 0
                    /\ op = "release" /\ Due = 1 => ~InTable(r, SharedObject) /\ deallocated = 1

C14_Witness ==
    /\ Running
    /\ \A t \in Threads : threads[t].done >= 1
    /\ sends.retain >= 1 /\ sends.release >= 2
    /\ Due = 0

Sleeping(t) == threads[t].status = "sleeping"

\* A step in which thread t is suspended leaves every other thread, the
\* objects and guest memory as they are; a step in which it resumes is not
\* taken before its time and has the call return 0.
C15_Step ==
    \A t \in Threads :
        /\ ~Sleeping(t) /\ Sleeping(t)' =>
              /\ \A u \in Threads \ {t} : threads'[u] = threads[u]
              /\ objects' = objects /\ bytes' = bytes /\ allocs' = allocs
        /\ Sleeping(t) /\ ~Sleeping(t)' /\ err'.kind = "none" =>
              /\ now >= threads[t].until
              /\ threads'[t].ret = 0
              /\ threads'[t].done = threads[t].done + 1

\* While a thread sleeps, a release or a store that another thread is about
\* to make is not held back: the step of that thread can be taken, and a
\* store goes through.
C15_OthersRun ==
    \A t \in Threads : Running /\ Sleeping(t) =>
        \A u \in Threads \ {t} :
            /\ Next_op(u, {"release"}) =>
                  WithinBounds(Returned(msg_send(Env, SharedObject, "release", nil), u))
            /\ Next_op(u, {"write"}) =>
                  \A v \in GuestBytes :
                      LET r == Returned(mem_write(Env, SharedByte, v), u)
                      IN  WithinBounds(r) /\ Ok(r) /\ r.threads[u].done = threads[u].done + 1

\* C15: sleep and usleep suspend the calling thread only; the other threads
\* go on with their calls on objects and on guest memory; the caller is
\* resumed in the end, not before its time, and the call returns 0.
C15_SleepSuspendsCaller ==
    /\ [][C15_Step]_vars
    /\ []C15_OthersRun
    /\ \A t \in Threads :
          Sleeping(t) ~> (~Running \/ (~Sleeping(t) /\ threads[t].ret = 0))

C15_Witness ==
    /\ Running
    /\ \E t \in Threads :
          /\ threads[t].ret = 0 /\ threads[t].done >= 1 /\ ~Sleeping(t)
          /\ \E u \in Threads \ {t} : Sleeping(u) /\ threads[u].done >= 1

\* The types the arguments have been read as, in the order of the reads.
ReadAs(va) == [k \in 1 .. Len(va.taken) |-> va.taken[k].as]

\* The cursor after a step of the call is where it was or further on, and
\* what was taken before stays taken.
C16_Step ==
    err'.kind = "none" /\ call'.format = call.format =>
        /\ call'.va.pos >= call.va.pos
        /\ IsPrefix(call.va.taken, call'.va.taken)
        /\ call'.va.args = call.va.args

\* After the pieces the loop has gone through, the arguments taken are the
\* first ones packed, each once and in the order of packing, read as the
\* types of those pieces (for the width '*' an i32 before the value, for
\* "%%" nothing), and the text is the text of those pieces.
C16_SoFar ==
    Running /\ call.format # nil =>
        /\ call.va.pos = Len(call.va.taken)
        /\ \A k \in 1 .. Len(call.va.taken) : call.va.taken[k].arg = k
        /\ \E n \in 0 .. Len(call.items) :
              /\ call.idx = Len(Joined(call.items, "text", n)) + (IF call.done THEN 1 ELSE 0)
              /\ ReadAs(call.va) = Joined(call.items, "takes", n)
              /\ call.res = Chars(Joined(call.items, "out", n))
              /\ call.done => n = Len(call.items) /\ call.va.pos = Len(call.va.args)

\* C16: printf_inner goes through the packed arguments from left to right
\* and never back: one argument for every conversion but "%%", and before
\* it one i32 where the width is '*'; the k-th value taken is the k-th
\* argument packed.
C16_CursorLeftToRight == []C16_SoFar /\ [][C16_Step]_vars

C16_Witness ==
    /\ Running /\ call.format # nil /\ call.done
    /\ ReadAs(call.va) = <<"i32", "u32", "i32">>
    /\ call.res = Chars(<<" ", "7", "-", "3">>)

\* The module of these sources that implements the symbol, "" if none does.
HomeOf(sym) ==
    CASE sym \in {"sleep", "usleep"} -> "unistd"
      [] sym \in {"printf", "vsprintf"} -> "printf"
      [] sym = "AudioComponentInstanceNew" -> "audio_components"
      [] sym = "NSHomeDirectory" -> "ns_file_manager"
      [] OTHER -> ""

\* C17: the binding of an import depends on nothing but the tables: every
\* import that a module exports is bound to the function of that module,
\* every other import is reported as unresolved, and when the binary is
\* loaded again every import is bound to the target it had the first time.
C17_ResolutionIdempotent ==
    Running =>
        /\ \A i \in 1 .. (link.next - 1) :
              LET sym == link.imports[i]
              IN  /\ HomeOf(sym) # "" => link.slots[i] = Bound(<<HomeOf(sym), sym>>)
                  /\ HomeOf(sym) = "" => link.slots[i] = Stub /\ sym \in link.unresolved
                  /\ link.pass > 1 => link.slots[i] = link.prev[i]
        /\ \A i \in link.next .. Len(link.imports) : link.slots[i] = Unbound
        /\ link.unresolved \subseteq {sym \in ImportNames : HomeOf(sym) = ""}
        /\ link.pass > 1 => \A i \in DOMAIN link.imports : link.prev[i] # Unbound

C17_Witness ==
    /\ Running
    /\ link.pass = 2 /\ Len(link.imports) = 2 /\ link.next > Len(link.imports)
    /\ \A i \in DOMAIN link.imports : link.slots[i].kind = "bound"

\* C18: a symbol that more than one table exports is not bound to the entry
\* found first: its resolution gives the report, the load stops with the
\* error that names the symbol, and its slot stays unbound.
C18_DuplicateReported ==
    /\ \A sym \in ImportNames :
          Cardinality(Exporters(link.tables, sym)) > 1 => resolve(link.tables, sym) = Duplicate
    /\ \A i \in DOMAIN link.slots :
          link.slots[i].kind = "bound" => Cardinality(Exporters(link.tables, link.imports[i])) = 1
    /\ Running /\ link.next <= Len(link.imports)
        /\ Cardinality(Exporters(link.tables, link.imports[link.next])) > 1 =>
          bind_next(link).slots[link.next] = Duplicate
    /\ err.kind = "duplicate export" =>
          /\ Cardinality(Exporters(link.tables, err.sel)) > 1
          /\ link.imports[err.obj] = err.sel
          /\ link.slots[err.obj] = Unbound

C18_Witness ==
    /\ err.kind = "duplicate export" /\ err.sel = "sleep"
    /\ link.next = 2 /\ link.slots[1].kind = "bound"

\* ------------------------------------------------------ key-value coding
\* Classes the guest instantiates for its key-value calls.
KVCClasses == {"Knob", "NSObject"}
\* The keys the guest passes, each with the accessor names the platform's
\* convention derives from it.
KVCKeys ==
    {[chars |-> <<"l", "e", "v", "e", "l">>,
      setter |-> "setLevel:", under |-> "_setLevel:", getter |-> "level"],
     [chars |-> <<"s", "e", "c", "r", "e", "t">>,
      setter |-> "setSecret:", under |-> "_setSecret:", getter |-> "secret"],
     [chars |-> <<"t", "i", "t", "l", "e">>,
      setter |-> "setTitle:", under |-> "_setTitle:", getter |-> "title"],
     [chars |-> <<"r", "a", "t", "i", "o">>,
      setter |-> "setRatio:", under |-> "_setRatio:", getter |-> "ratio"]}
\* The values the guest stores.
KVCValues == {nil, 1}

\* [c alloc], for the classes of the key-value calls
GuestAllocKVC ==
    /\ Running
    /\ \E c \in KVCClasses, a \in FreeAddr : Commit(msg_class(Begin(a), c, "alloc", nil))

\* [a setValue:v forKey:k]
GuestSetValue ==
    /\ Running
    /\ \E a \in Addr, k \in KVCKeys, v \in KVCValues :
          Commit(msg_send(Begin(nil), a, "setValue:forKey:", <<v, k.chars>>))

\* [a valueForKey:k]; the number a result is boxed in is allocated at f.
GuestValueForKey ==
    /\ Running
    /\ \E a \in Addr, k \in KVCKeys, f \in FreeAddr :
          Commit(msg_send(Begin(f), a, "valueForKey:", k.chars))

\* The guest's main thread runs inside the pool the application's entry
\* point has pushed.
InitKVC ==
    /\ objects = [a \in Addr |-> NoEntry]
    /\ pools = <<<<>>>>
    /\ err = NoError
    /\ freed = {}
    /\ deallocs = [a \in Addr |-> 0]
    /\ allocs = NoAllocs
    /\ bytes = NoBytes
    /\ instances = NoInstances
    /\ disposed = nil
    /\ views = <<>>
    /\ owned = NoOwned
    /\ framework_state = NoFrameworkState
    /\ link = NoLink
    /\ call = NoCall
    /\ threads = NoThreads
    /\ now = 0
    /\ sends = NoSends

NextKVC ==
    \/ GuestAllocKVC
    \/ GuestRelease
    \/ GuestSetValue
    \/ GuestValueForKey

SpecKVC == InitKVC /\ [][NextKVC]_vars

\* Whether class c or one of its ancestors defines the instance method sel.
Defines(c, sel) == \E k \in Ancestors(c) : sel \in InstanceMethods(k)

\* The sends of sel to a that the log s records.
SendsOf(s, a, sels) ==
    LET Is(n) == n.side = "-" /\ n.recv = a /\ n.sel \in sels
    IN  SelectSeq(s, Is)

\* The outcome of [a setValue:v forKey:k] in the current state.
SetValue(a, k, v) == msg_send(Env, a, "setValue:forKey:", <<v, k.chars>>)

\* C19: setValue:forKey: with a non-empty ASCII key k sends "set" +
\* Capitalised(k) + ":" to the object exactly once, with the value, if the
\* class has that method; otherwise it sends "_set" + Capitalised(k) + ":"
\* if the class has that one; if the class has neither it fails with an
\* unhandled-key error and no setter is invoked.  At most one setter is
\* invoked per call.
C19_SetValueOneSetter ==
    \A a \in Addr, k \in KVCKeys, v \in KVCValues :
        InTable(Env, a) =>
            LET r == SetValue(a, k, v)
                c == objects[a].isa
                sent == SendsOf(r.log, a, {k.setter, k.under})
                chosen == IF Defines(c, k.setter) THEN k.setter ELSE k.under
            IN  /\ Len(sent) <= 1
                /\ IF Defines(c, k.setter) \/ Defines(c, k.under)
                   THEN /\ Ok(r)
                        /\ Len(sent) = 1
                        /\ sent[1].sel = chosen
                        /\ sent[1].arg = v
                   ELSE /\ r.err.kind = "unhandled key"
                        /\ sent = <<>>

\* A Knob, which has both setters of "level" and only the underscored one of
\* "secret", and an NSObject, which has neither, have been sent
\* setValue:forKey:.
C19_Witness ==
    \E a, b \in Addr :
        /\ objects[a].isa = "Knob"
        /\ objects[b].isa = "NSObject"
        /\ \E k \in KVCKeys :
              /\ k.setter = "setLevel:"
              /\ SendsOf(SetValue(a, k, b).log, a, {k.setter, k.under})[1].sel = "setLevel:"
              /\ SetValue(b, k, a).err.kind = "unhandled key"
        /\ \E k \in KVCKeys :
              /\ k.under = "_setSecret:"
              /\ SendsOf(SetValue(a, k, nil).log, a, {k.setter, k.under})[1].sel = "_setSecret:"

\* The outcome of [a valueForKey:k] in the current state, the number boxing
\* an integer being allocated at f.
ValueFor(a, k, f) == msg_send(Begin(f), a, "valueForKey:", k.chars)

\* What the accessor of k answers when it is sent to a directly.
Direct(a, k) == msg_send(Env, a, k.getter, nil).ret

\* r.ret is a number object, new in r, that holds v.
Boxed(r, v) ==
    /\ r.ret \in Addr
    /\ ~InTable(Env, r.ret)
    /\ r.objects[r.ret].isa = "NSNumber"
    /\ r.objects[r.ret].host = NSNumberHostObject(v)

\* C20: valueForKey: with key k dispatches to the accessor named k exactly
\* when the class or an ancestor has a method for it, and returns its result
\* (an integer result boxed as a number object); otherwise it fails with an
\* unhandled-key error and never returns a value silently.
C20_ValueForKeyDispatches ==
    \A a \in Addr, k \in KVCKeys, f \in FreeAddr :
        InTable(Env, a) =>
            LET r == ValueFor(a, k, f)
                sent == SendsOf(r.log, a, {k.getter})
            IN  IF Defines(objects[a].isa, k.getter)
                THEN /\ Ok(r)
                     /\ Len(sent) = 1
                     /\ r.ret = Direct(a, k) \/ Boxed(r, Direct(a, k))
                ELSE /\ r.err.kind = "unhandled key"
                     /\ sent = <<>>

\* --------------------------------------- counting selectors, class side
CountingSelectors == {"retain", "release", "autorelease"}

\* [c retain], [c release], [c autorelease]
GuestClassSend ==
    /\ Running
    /\ \E c \in Classes, s \in CountingSelectors :
          Commit(msg_class(Begin(nil), c, s, nil))

\* Counting selectors sent to class objects, among the sends to instances
\* and the drain of the pool.
NextClassSide ==
    \/ GuestAllocOther
    \/ GuestRelease
    \/ GuestAutorelease
    \/ GuestClassSend
    \/ DrainPool

\* The guest starts with its first pool in place.
SpecClassSide == InitKVC /\ [][NextClassSide]_vars

\* A counting selector sent to the class object c runs one "+" body and
\* nothing else, and leaves the table, the counts, the pools and the
\* teardown record as they were; so does a second one after it.
ClassSendInert(c, s, t) ==
    LET r1 == msg_class(Env, c, s, nil)
        r2 == msg_class(r1, c, t, nil)
    IN  /\ Ok(r1) /\ Ok(r2)
        /\ SameState(r1) /\ SameState(r2)
        /\ Len(r2.log) = 2
        /\ \A i \in 1 .. Len(r2.log) :
              /\ r2.log[i].side = "+"
              /\ r2.log[i].impl = lookup_method(c, r2.log[i].sel, "+")
              /\ r2.log[i].sel \in {s, t}

\* What retain and release do to the count of the instance a.
InstanceSendCounts(a) ==
    LET r1 == msg_send(Env, a, "retain", nil)
        r2 == msg_send(Env, a, "release", nil)
    IN  /\ Ok(r1) /\ r1.objects[a].refcount = objects[a].refcount + 1
        /\ Ok(r2)
        /\ IF objects[a].refcount = 1 THEN ~InTable(r2, a)
           ELSE r2.objects[a].refcount = objects[a].refcount - 1

\* C22: retain, release and autorelease sent to a class object resolve to
\* the "+" methods on the metaclass chain, never to an instance method: they
\* change no count, register nothing in a pool and start no dealloc, however
\* many of them are sent and in whatever order.  Sent to an instance, retain
\* and release change its count at once, and autorelease adds an entry for
\* it to the innermost pool and leaves the count to the drain of that pool.
C22_ClassSendsInert ==
    Running =>
        /\ \A c \in Classes, s, t \in CountingSelectors : ClassSendInert(c, s, t)
        /\ \A a \in Addr : InTable(Env, a) =>
              /\ InstanceSendCounts(a)
              /\ pools # <<>> =>
                    LET r == msg_send(Env, a, "autorelease", nil)
                    IN  /\ Ok(r)
                        /\ r.objects = objects
                        /\ Count(a, r.pools[Len(pools)]) = Count(a, Top) + 1

\* C22 as first stated: each of the three selectors, sent to an instance,
\* changes the count of that instance.
C22_InstanceSendsChangeCount ==
    (Running /\ pools # <<>>) =>
        /\ \A c \in Classes, s, t \in CountingSelectors : ClassSendInert(c, s, t)
        /\ \A a \in Addr, s \in CountingSelectors : InTable(Env, a) =>
              LET r == msg_send(Env, a, s, nil)
              IN  Ok(r) /\ (InTable(r, a) => r.objects[a].refcount # objects[a].refcount)

\* An instance of count 1 with an entry in the pool: a class-side release
\* or drain that reached it would tear it down.
C22_Witness ==
    /\ Running
    /\ pools # <<>>
    /\ \E a \in Addr :
          /\ objects[a].isa = "Widget"
          /\ objects[a].refcount = 1
          /\ Count(a, Top) = 1

\* ------------------------------------------- respondsToSelector: and sends
\* Selectors asked about and sent: instance methods of the root, of one
\* class only, class methods, and one that no class defines.
RespondSelectors ==
    {"dealloc", "retainCount", "timeIntervalSince1970", "date", "allocWithZone:",
     "frobnicate"}

\* The send of s to a is not turned down with "does not understand".
Understood(a, s) == msg_send(Env, a, s, nil).err.kind # "does not understand"

\* C23: respondsToSelector:s on an object is true exactly when a send of s
\* to the object resolves to a method of its class or of an ancestor, and it
\* equals the answer of +instancesRespondToSelector:s of the object's class.
C23_RespondsIffUnderstood ==
    Running =>
        \A a \in Addr, s \in RespondSelectors : InTable(Env, a) =>
            LET r == msg_send(Env, a, "respondsToSelector:", s)
                q == msg_class(Env, objects[a].isa, "instancesRespondToSelector:", s)
            IN  /\ Ok(r) /\ Ok(q)
                /\ r.ret \in BOOLEAN
                /\ r.ret <=> Understood(a, s)
                /\ r.ret = q.ret

\* An instance of a class that inherits every method it has, next to one of
\* a class with methods of its own.
C23_Witness ==
    /\ Running
    /\ \E a, b \in Addr :
          /\ objects[a].isa = "Widget"
          /\ objects[b].isa = "NSDate"
          /\ msg_send(Env, a, "respondsToSelector:", "dealloc").ret
          /\ ~msg_send(Env, a, "respondsToSelector:", "timeIntervalSince1970").ret
          /\ msg_send(Env, b, "respondsToSelector:", "timeIntervalSince1970").ret

\* ------------------------------------------------------- the view tree
\* The guest's views and their layers live at the addresses of ViewSpace.
ViewSpace == 1 .. MaxViewObjects

InitViews ==
    /\ objects = [a \in ViewSpace |-> NoEntry]
    /\ pools = <<>>
    /\ err = NoError
    /\ freed = {}
    /\ deallocs = [a \in ViewSpace |-> 0]
    /\ allocs = NoAllocs
    /\ bytes = NoBytes
    /\ instances = NoInstances
    /\ disposed = nil
    /\ views = <<>>
    /\ owned = [a \in ViewSpace |-> 0]
    /\ framework_state = NoFrameworkState
    /\ link = NoLink
    /\ call = NoCall
    /\ threads = NoThreads
    /\ now = 0
    /\ sends = NoSends

\* The views in the table of e, and those among them that have their layer.
ViewsOf(e) == {a \in DOMAIN e.objects : IsView(e, a)}
LayeredOf(e) == {a \in ViewsOf(e) : e.objects[a].host.layer # nil}
LiveViews == ViewsOf(Env)
Layered == LayeredOf(Env)

\* The properties of the tree are the same whichever free address a new
\* object gets; the allocator hands out the lowest that was never in use, so
\* that the guest creates as many objects as ViewSpace has addresses.
Unused == {a \in DOMAIN objects : objects[a].isa = NoClass /\ a \notin freed}
FirstFree == CHOOSE a \in Unused : \A b \in Unused : a <= b

SecondFree == CHOOSE a \in Unused \ {FirstFree} : \A b \in Unused \ {FirstFree} : a <= b

\* The guest's own references: d more on a.
Own(r, a, d) == IF Ok(r) THEN [r EXCEPT !.owned[a] = @ + d] ELSE r

\* The allocator's next address is a.
Next_fresh(r, a) == [r EXCEPT !.fresh = a]

\* v = [[UIView alloc] init]
GuestViewNew ==
    /\ Running
    /\ Cardinality(Unused) >= 2
    /\ Become(Own(msg_send(Next_fresh(msg_class(Begin(FirstFree), "UIView", "alloc", nil),
                                      SecondFree),
                           FirstFree, "init", nil),
                  FirstFree, 1))

\* v = [UIView alloc]
GuestViewAlloc ==
    /\ Running
    /\ Unused # {}
    /\ Become(Own(msg_class(Begin(FirstFree), "UIView", "alloc", nil), FirstFree, 1))

\* [v init]
GuestViewInit ==
    /\ Running
    /\ Unused # {}
    /\ \E v \in LiveViews : Become(msg_send(Begin(FirstFree), v, "init", nil))

\* [p addSubview:v]
GuestAddSubview ==
    /\ Running
    /\ \E p, v \in Layered : Become(msg_send(Begin(nil), p, "addSubview:", v))

\* [p bringSubviewToFront:v]
GuestBringSubviewToFront ==
    /\ Running
    /\ \E p, v \in Layered : Become(msg_send(Begin(nil), p, "bringSubviewToFront:", v))

\* [v removeFromSuperview]
GuestRemoveFromSuperview ==
    /\ Running
    /\ \E v \in Layered : Become(msg_send(Begin(nil), v, "removeFromSuperview", nil))

\* [v retain]
GuestViewRetain ==
    /\ Running
    /\ \E v \in LiveViews :
          /\ owned[v] < MaxOwned
          /\ Become(Own(msg_send(Begin(nil), v, "retain", nil), v, 1))

\* [v release], on a reference the guest owns
GuestViewRelease ==
    /\ Running
    /\ \E v \in LiveViews :
          /\ owned[v] > 0
          /\ Become(Own(msg_send(Begin(nil), v, "release", nil), v, -1))

NextViews ==
    \/ GuestViewNew
    \/ GuestAddSubview
    \/ GuestBringSubviewToFront
    \/ GuestRemoveFromSuperview
    \/ GuestViewRetain
    \/ GuestViewRelease

SpecViews == InitViews /\ [][NextViews]_vars

\* The host object of the view v, and how often v occurs in a list.
View(v) == objects[v].host
Occurrences(v, list) == Cardinality({i \in 1 .. Len(list) : list[i] = v})

\* C24: the two sides of the view tree agree.  For all live views v and p,
\* the superview of v is p exactly when v is in the subviews of p; no view
\* is twice in a list or in the lists of two views; the links lead to live
\* views only.
C24_TreeSidesAgree ==
    Running =>
        \A v \in LiveViews :
            /\ View(v).superview \in LiveViews \cup {nil}
            /\ \A i \in 1 .. Len(View(v).subviews) : View(v).subviews[i] \in LiveViews
            /\ \A p \in LiveViews :
                  /\ View(v).superview = p <=> Occurrences(v, View(p).subviews) > 0
                  /\ Occurrences(v, View(p).subviews) <= 1
            /\ Cardinality({p \in LiveViews : Occurrences(v, View(p).subviews) > 0}) <= 1

\* A view with two subviews, after a view was deallocated.
C24_Witness ==
    /\ Running
    /\ freed # {}
    /\ \E p \in LiveViews : Len(View(p).subviews) = 2

\* The reference count of a in the environment r, 0 once a left the table.
CountIn(r, a) == IF InTable(r, a) THEN r.objects[a].refcount ELSE 0
Holders(v) == {p \in LiveViews : Occurrences(v, View(p).subviews) > 0}

\* What addSubview: and removeFromSuperview do to the count of v.
AddSubviewCounts(p, v) ==
    LET r == msg_send(Env, p, "addSubview:", v)
    IN  /\ Ok(r)
        /\ CountIn(r, v) = IF View(v).superview = nil THEN objects[v].refcount + 1
                           ELSE objects[v].refcount
        /\ r.objects[v].host.superview = p
        /\ \A w \in LiveViews \ {v} : CountIn(r, w) = objects[w].refcount

RemoveFromSuperviewCounts(v) ==
    LET r1 == msg_send(Env, v, "removeFromSuperview", nil)
        r2 == msg_send(r1, v, "removeFromSuperview", nil)
    IN  /\ Ok(r1)
        /\ IF View(v).superview = nil
           THEN r1.objects = objects /\ r1.views = views
           ELSE /\ CountIn(r1, v) = objects[v].refcount - 1
                /\ InTable(r1, v) =>
                      /\ r1.objects[v].host.superview = nil
                      /\ Ok(r2) /\ r2.objects = r1.objects /\ r2.views = r1.views

\* C25: a superview holds exactly one reference on each of its subviews
\* and a subview none on its superview, so that the count of a view is what
\* the guest holds on it plus one if it is in a list.  addSubview: raises
\* the count of the view by 1 when it had no superview and leaves it alone
\* otherwise; removeFromSuperview lowers it by 1 when the view had a
\* superview and changes nothing when it had none, also the second time in
\* a row.
C25_StrongDownWeakUp ==
    Running =>
        /\ \A v \in LiveViews :
              objects[v].refcount = owned[v] + Cardinality(Holders(v))
        /\ \A v \in Layered :
              /\ RemoveFromSuperviewCounts(v)
              /\ \A p \in Layered : AddSubviewCounts(p, v)

\* A view that only its superview keeps, next to a view without superview.
C25_Witness ==
    /\ Running
    /\ \E v, p, q \in Layered :
          /\ q \notin {p, v} /\ p # v
          /\ View(v).superview = p
          /\ objects[v].refcount = 1
          /\ View(q).superview = nil
          /\ View(v).subviews = <<>>

\* The view reached from v by n superview links, nil once the chain ended.
RECURSIVE Up(_, _)
Up(v, n) ==
    IF n = 0 \/ v = nil THEN v
    ELSE IF v \in LiveViews THEN Up(View(v).superview, n - 1)
    ELSE nil

\* C26: the superview relation is acyclic after any sequence of addSubview:
\* calls on live views, a view added to itself or to one of its descendants
\* included: following the superview links from any view ends at nil.
C26_SuperviewAcyclic ==
    Running => \A v \in LiveViews : Up(v, Cardinality(LiveViews)) = nil

\* The dealloc bodies of the log l, and the receivers of the sends of
\* release that it records.
UIViewDeallocs(l) ==
    LET Is(n) == IsDealloc(n) /\ n.impl = "UIView" IN SelectSeq(l, Is)
Releases(l, a) == Len(SendsOf(l, a, {"release"}))

\* The release of the last reference on v, one the guest owns: v is torn
\* down with its superview nil; every subview is released once and its
\* superview set to nil, the layer is released once, and a subview that had
\* no other reference is torn down in turn.
LastReleaseTearsDown(v) ==
    LET r == msg_send(Env, v, "release", nil)
    IN  /\ Ok(r)
        /\ View(v).superview = nil
        /\ ~InTable(r, v)
        /\ Len(SendsOf(r.log, v, {"dealloc"})) = 1
        /\ position(r.views, v) = 0
        /\ Releases(r.log, View(v).layer) = 1
        /\ ~InTable(r, View(v).layer)
        /\ \A i \in 1 .. Len(View(v).subviews) :
              LET s == View(v).subviews[i]
              IN  /\ Releases(r.log, s) = 1
                  /\ IF objects[s].refcount = 1 THEN ~InTable(r, s)
                     ELSE /\ r.objects[s].refcount = objects[s].refcount - 1
                          /\ r.objects[s].host.superview = nil

\* C27: a view is deallocated only while its superview is nil: no dealloc
\* stops at the assertion on the superview as long as the guest releases
\* only references it owns; dealloc sets the superview of each remaining subview to nil and
\* releases each subview once and the layer once, and a subview that only
\* the superview kept is deallocated in turn.
C27_DeallocDetached ==
    /\ err.kind # "assertion failed"
    /\ Running =>
          \A v \in LiveViews :
              (owned[v] = 1 /\ objects[v].refcount = 1) => LastReleaseTearsDown(v)

\* The last reference on a view with two subviews is the guest's; one of
\* the subviews is kept by the view alone, the other by the guest as well.
C27_Witness ==
    /\ Running
    /\ \E v \in LiveViews :
          /\ owned[v] = 1 /\ objects[v].refcount = 1
          /\ Len(View(v).subviews) = 2
          /\ objects[View(v).subviews[1]].refcount = 1
          /\ objects[View(v).subviews[2]].refcount = 2

\* ------------------------------------------------ the list of views
\* v = [UIView alloc], [v init] and [v release] as steps of their own: a
\* view may be released before init ran, and init may run again.
NextViewList ==
    \/ GuestViewAlloc
    \/ GuestViewInit
    \/ GuestViewRelease

SpecViewList == InitViews /\ [][NextViewList]_vars

\* C28: the internal list of views holds every view that was allocated
\* and not yet deallocated exactly once and no deallocated view, adds
\* nothing to the count, and the dealloc of any live view (whether or not
\* and however often an init ran) finds the view in the list and removes it.
C28_ListTracksLiveViews ==
    Running =>
        /\ \A v \in DOMAIN objects :
              Occurrences(v, views) = IF v \in LiveViews THEN 1 ELSE 0
        /\ \A v \in LiveViews :
              /\ objects[v].refcount = owned[v]
              /\ (owned[v] = 1) =>
                    LET r == msg_send(Env, v, "release", nil)
                    IN  Ok(r) /\ ~InTable(r, v) /\ position(r.views, v) = 0

\* ------------------------------------------------------------ hit tests
\* The frame the guest gives its views, the points it tests and the
\* opacities it sets.  A subview lies one step right of and below the origin
\* of its superview, so that the test of a view that is its own subview ends
\* as well: each level moves the point.
Frames == {CGRect(1, 1, 2, 2)}
Points == {CGPoint(0, 0), CGPoint(1, 1), CGPoint(3, 3)}
Alphas == {0, Opaque}

\* v = [[UIView alloc] initWithFrame:f]
GuestViewNewFramed ==
    /\ Running
    /\ Cardinality(Unused) >= 2
    /\ \E f \in Frames :
          Become(Own(msg_send(Next_fresh(msg_class(Begin(FirstFree), "UIView", "alloc", nil),
                                         SecondFree),
                              FirstFree, "initWithFrame:", f),
                     FirstFree, 1))

\* The view v is hidden, below the opacity for touches, or closed to touches.
Impaired(e, v) ==
    \/ e.objects[e.objects[v].host.layer].host.hidden
    \/ e.objects[e.objects[v].host.layer].host.opacity < TouchableAlpha
    \/ ~e.objects[v].host.user_interaction_enabled
Impairments(e) ==
    {x \in LayeredOf(e) \X {"hidden", "alpha", "touches"} :
        CASE x[2] = "hidden" -> e.objects[e.objects[x[1]].host.layer].host.hidden
          [] x[2] = "alpha" ->
                e.objects[e.objects[x[1]].host.layer].host.opacity < TouchableAlpha
          [] OTHER -> ~e.objects[x[1]].host.user_interaction_enabled}
FewImpaired(r) == Ok(r) => Cardinality(Impairments(r)) <= MaxImpaired

\* [v setHidden:b], [v setAlpha:x], [v setUserInteractionEnabled:b]
GuestSetHidden ==
    /\ Running
    /\ \E v \in Layered, b \in BOOLEAN :
          LET r == msg_send(Env, v, "setHidden:", b) IN FewImpaired(r) /\ Become(r)

GuestSetAlpha ==
    /\ Running
    /\ \E v \in Layered, x \in Alphas :
          LET r == msg_send(Env, v, "setAlpha:", x) IN FewImpaired(r) /\ Become(r)

GuestSetUserInteractionEnabled ==
    /\ Running
    /\ \E v \in Layered, b \in BOOLEAN :
          LET r == msg_send(Env, v, "setUserInteractionEnabled:", b)
          IN  FewImpaired(r) /\ Become(r)

\* [v hitTest:pt withEvent:nil]
GuestHitTest ==
    /\ Running
    /\ \E v \in Layered, pt \in Points :
          Become(msg_send(Env, v, "hitTest:withEvent:", <<pt, nil>>))

NextHitTest ==
    \/ GuestViewNewFramed
    \/ GuestAddSubview
    \/ GuestSetHidden
    \/ GuestSetAlpha
    \/ GuestSetUserInteractionEnabled
    \/ GuestHitTest

SpecHitTest == InitViews /\ [][NextHitTest]_vars

\* What hitTest:withEvent: is to answer for the view v and the point pt,
\* over at most n levels of subviews; Frontmost goes through the subviews
\* of v from number i down to the first.
RECURSIVE Hit(_, _, _)
RECURSIVE Frontmost(_, _, _, _)
Frontmost(v, pt, i, n) ==
    IF i = 0 THEN v
    ELSE LET s == View(v).subviews[i]
             frame == objects[View(s).layer].host.frame
             bounds == objects[View(s).layer].host.bounds
             found == Hit(s, CGPoint(pt.x - frame.x + bounds.x, pt.y - frame.y + bounds.y),
                          n - 1)
         IN  IF Impaired(Env, s) \/ found = nil THEN Frontmost(v, pt, i - 1, n)
             ELSE found
Hit(v, pt, n) ==
    IF n = 0 \/ ~CGRectContainsPoint(objects[View(v).layer].host.bounds, pt) THEN nil
    ELSE Frontmost(v, pt, Len(View(v).subviews), n)

Acyclic == \A v \in LiveViews : Up(v, Cardinality(LiveViews)) = nil

\* C29: hitTest:withEvent: answers nil for a point outside the receiver;
\* otherwise it goes through the subviews from the last to the first and
\* answers the first result of a subview's own hitTest that is not nil,
\* neither asking nor answering a subview that is hidden, has an alpha below
\* 0.01 or has user interaction disabled; with no such result it answers the
\* receiver.
C29_HitTestFrontmost ==
    (Running /\ Acyclic) =>
        \A v \in Layered, pt \in Points :
            LET r == msg_send(Env, v, "hitTest:withEvent:", <<pt, nil>>)
            IN  /\ Ok(r)
                /\ r.ret = Hit(v, pt, Cardinality(LiveViews))
                /\ \A s \in Layered \ {v} :
                      Impaired(Env, s) => SendsOf(r.log, s, {"hitTest:withEvent:"}) = <<>>

\* ------------------------------------------------- the order of subviews
\* The list without v.
Without(list, v) == LET Other(x) == x # v IN SelectSeq(list, Other)

\* After sel (addSubview: or bringSubviewToFront:) with v on p: v is the
\* last of the subviews of p, the others are in the order they were in, and
\* if v was a subview of p before, the list has the same members and every
\* count is what it was.
MovedToFront(p, v, sel) ==
    LET r == msg_send(Env, p, sel, v)
    IN  /\ Ok(r)
        /\ r.objects[p].host.subviews = Append(Without(View(p).subviews, v), v)
        /\ Occurrences(v, View(p).subviews) > 0 =>
              \A a \in DOMAIN objects : CountIn(r, a) = CountIn(Env, a)

\* C30: subviews are kept back to front.  After addSubview:v or
\* bringSubviewToFront:v on p, v is the last element of p.subviews whether
\* or not it was a subview of p before, the other subviews of p keep their
\* order, and when v was a subview of p before, the set of subviews and
\* every reference count are unchanged.
C30_BackToFront ==
    Running =>
        \A p, v \in Layered, sel \in {"addSubview:", "bringSubviewToFront:"} :
            MovedToFront(p, v, sel)

\* ------------------------------------------------------ the object table
\* [c alloc] with the allocator at the free address f: the new object is
\* at f, which held none, with count 1, class c and a host object; no other
\* entry changes.
AllocPairs(c, f) ==
    LET r == msg_class(Begin(f), c, "alloc", nil)
    IN  /\ Ok(r)
        /\ r.ret = f
        /\ r.objects[f].isa = c
        /\ r.objects[f].refcount = 1
        /\ r.objects[f].host # NoHost
        /\ \A a \in DOMAIN objects \ {f} : r.objects[a] = objects[a]

\* Every address has one entry, with a host object exactly when an object
\* lives there.
TablePairs ==
    /\ \A a \in DOMAIN objects :
          IF objects[a].isa = NoClass THEN objects[a] = NoEntry
          ELSE objects[a].isa \in Classes /\ objects[a].host # NoHost
    /\ Running =>
          \A c \in Classes, f \in DOMAIN objects : ~InTable(Env, f) => AllocPairs(c, f)

\* An address that leaves the table, with the host still running, does so
\* in a step that ran a dealloc body on it.
LeavesThroughDealloc ==
    \A a \in DOMAIN objects :
        (objects[a].isa # NoClass /\ objects'[a].isa = NoClass /\ err'.kind = "none") =>
            /\ deallocs'[a] = deallocs[a] + 1
            /\ a \in freed'

\* C21: the object table pairs each live address with exactly one host
\* object; an object returned by alloc is in the table, at an address that
\* held no object, with count 1; an address leaves the table only through
\* dealloc.
C21_TablePairsObjects == []TablePairs /\ [][LeavesThroughDealloc]_vars

\* A view kept by the guest and by its superview, after two objects have
\* left the table.
C21_Witness ==
    /\ Running
    /\ Cardinality(freed) >= 2
    /\ \E v \in LiveViews : objects[v].refcount = 2

\* ------------------------------------------------------------ singletons
\* The singletons the frameworks have made so far.
Singletons == {framework_state.main_bundle, framework_state.default_manager} \ {nil}

\* [NSBundle mainBundle]
GuestMainBundle ==
    /\ Running
    /\ Cardinality(Unused) >= 2
    /\ Become(msg_class(Begin(FirstFree), "NSBundle", "mainBundle", nil))

\* [NSFileManager defaultManager]
GuestDefaultManager ==
    /\ Running
    /\ Cardinality(Unused) >= 2
    /\ Become(msg_class(Begin(FirstFree), "NSFileManager", "defaultManager", nil))

\* [s retain] on a singleton the guest was given.
GuestSingletonRetain ==
    /\ Running
    /\ \E s \in Singletons :
          /\ InTable(Env, s)
          /\ owned[s] < MaxOwned
          /\ Commit(Own(msg_send(Begin(nil), s, "retain", nil), s, 1))

\* [s release], [s autorelease]: the guest gives up a reference it took.
GuestSingletonRelease ==
    /\ Running
    /\ \E s \in Singletons, sel \in {"release", "autorelease"} :
          /\ owned[s] > 0
          /\ Commit(Own(msg_send(Begin(nil), s, sel, nil), s, -1))

NextSingletons ==
    \/ GuestMainBundle
    \/ GuestDefaultManager
    \/ GuestSingletonRetain
    \/ GuestSingletonRelease
    \/ PushPool
    \/ DrainPool

SpecSingletons == InitViews /\ [][NextSingletons]_vars

\* The call of sel on class c returns the object kept in field, which is
\* live and of class c, and allocates only when nothing was kept.
ReturnsTheSingleton(c, sel, field) ==
    LET r == msg_class(Begin(FirstFree), c, sel, nil)
    IN  Ok(r) =>
          /\ InTable(r, r.ret)
          /\ r.objects[r.ret].isa = c
          /\ r.objects[r.ret].refcount >= 1
          /\ r.framework_state[field] = r.ret
          /\ framework_state[field] # nil =>
                /\ r.ret = framework_state[field]
                /\ r.objects = objects

\* C31: mainBundle and defaultManager each allocate at most one object,
\* return that same object on every call, and the object returned is live
\* (count at least 1, in the table) at every return, however the calls are
\* interleaved with pool drains.
C31_SingletonsLive ==
    (Running /\ Cardinality(Unused) >= 2) =>
        /\ ReturnsTheSingleton("NSBundle", "mainBundle", "main_bundle")
        /\ ReturnsTheSingleton("NSFileManager", "defaultManager", "default_manager")
        /\ \A c \in {"NSBundle", "NSFileManager"} :
              Cardinality({a \in DOMAIN objects : objects[a].isa = c}) <= 1

\* ------------------------------------------- performing on another thread
\* What a thread does, one call after the other: "perform" schedules
\* without waiting, "performWait" asks to wait until done.
PerformPrograms ==
    {<<"perform">>, <<"performWait">>, <<"perform", "performWait">>, <<"retain">>}

ScheduledSelectors == {"retain", "release"}

InitPerform ==
    /\ \E n \in 1 .. 2 :
          /\ objects = [a \in Addr |-> IF a = SharedObject
                                        THEN [isa |-> "NSObject", refcount |-> n, host |-> TrivialHostObject]
                                        ELSE NoEntry]
          /\ sends = [NoSends EXCEPT !.initial = n]
    /\ pools = <<>>
    /\ err = NoError
    /\ freed = {}
    /\ deallocs = [a \in Addr |-> 0]
    /\ allocs = NoAllocs
    /\ bytes = NoBytes
    /\ instances = NoInstances
    /\ disposed = nil
    /\ views = <<>>
    /\ owned = NoOwned
    /\ framework_state = NoFrameworkState
    /\ link = NoLink
    /\ call = NoCall
    /\ threads \in [Threads -> {[Idle EXCEPT !.todo = p] : p \in PerformPrograms}]
    /\ now = 0

\* [SharedObject performSelector:s onThread:u withObject:nil waitUntilDone:w]
ThreadPerform(t) ==
    /\ Next_op(t, {"perform", "performWait"})
    /\ \E s \in ScheduledSelectors, u \in Threads :
          Commit(Returned(msg_send(Begin(nil), SharedObject,
                                   "performSelector:onThread:withObject:waitUntilDone:",
                                   <<s, u, nil, Head(threads[t].todo) = "performWait">>), t))

\* The run loop of thread t runs the invocation scheduled first.
RunLoopTurn(t) ==
    /\ Running
    /\ threads[t].status = "ready"
    /\ framework_state.run_loops[t] # <<>>
    /\ LET op == Head(framework_state.run_loops[t]).selector
           r == run_loop_turn(Begin(nil), t)
       IN  Commit(IF Ok(r) THEN [r EXCEPT !.sends[op] = @ + 1] ELSE r)

NextPerform ==
    \/ \E t \in Threads : ThreadPerform(t)
    \/ \E t \in Threads : ThreadSend(t)
    \/ \E t \in Threads : RunLoopTurn(t)

SpecPerform == InitPerform /\ [][NextPerform]_vars

\* C32: performSelector:onThread:withObject:waitUntilDone: runs no body of
\* the selector itself; it schedules exactly one invocation of the selector
\* with the argument on the run loop of the given thread; asked to wait, it
\* has not returned before that invocation has been run, and not asked to
\* wait it returns with the invocation scheduled.
C32_PerformOnThread ==
    Running =>
        \A s \in ScheduledSelectors, u \in Threads, w \in BOOLEAN :
            LET r == msg_send(Env, SharedObject,
                              "performSelector:onThread:withObject:waitUntilDone:",
                              <<s, u, nil, w>>)
                was == framework_state.run_loops
                is == r.framework_state.run_loops
            IN  (InTable(Env, SharedObject) /\ Ok(r)) =>
                  /\ \A i \in 1 .. Len(r.log) :
                        r.log[i].sel = "performSelector:onThread:withObject:waitUntilDone:"
                  /\ \A v \in Threads \ {u} : is[v] = was[v]
                  /\ r.objects = objects \/ w
                  /\ IF w
                     THEN Len(is[u]) <= Len(was[u])
                     ELSE is[u] = Append(was[u], [target |-> SharedObject,
                                                  selector |-> s, arg |-> nil])

\* ------------------------------------------------- what an error owns
IsError(e, a) == BorrowOk(e, a, "ErrorHostObject")

LiveObjects == {a \in DOMAIN objects : InTable(Env, a)}

LiveErrors == {a \in LiveObjects : IsError(Env, a)}

\* The errors no initWithDomain:code:userInfo: has reached: the code is
\* still the 0 of allocWithZone:, the guest passes another.
Uninitialised == {a \in LiveErrors : objects[a].host.code = 0}

ErrorSpace == 1 .. MaxErrorObjects

InitErrors ==
    /\ objects = [a \in ErrorSpace |-> NoEntry]
    /\ pools = <<>>
    /\ err = NoError
    /\ freed = {}
    /\ deallocs = [a \in ErrorSpace |-> 0]
    /\ allocs = NoAllocs
    /\ bytes = NoBytes
    /\ instances = NoInstances
    /\ disposed = nil
    /\ views = <<>>
    /\ owned = [a \in ErrorSpace |-> 0]
    /\ framework_state = NoFrameworkState
    /\ link = NoLink
    /\ call = NoCall
    /\ threads = NoThreads
    /\ now = 0
    /\ sends = NoSends

\* o = [c alloc], c one of NSObject and NSError
GuestNewForError ==
    /\ Running
    /\ Unused # {}
    /\ \E c \in {"NSObject", "NSError"} :
          Become(Own(msg_class(Begin(FirstFree), c, "alloc", nil), FirstFree, 1))

\* What the guest passes for a domain and for a user info: nil, or an object
\* that is not itself an error.
Holdable == (LiveObjects \ LiveErrors) \cup {nil}

\* [a initWithDomain:d code:k userInfo:u], once on an error
GuestInitErrorOnce ==
    /\ Running
    /\ \E a \in Uninitialised, d \in Holdable, u \in Holdable, k \in ErrorCodes :
          Become(msg_send(Begin(nil), a, "initWithDomain:code:userInfo:", <<d, k, u>>))

\* [o retain]
GuestRetainOwned ==
    /\ Running
    /\ \E o \in LiveObjects :
          /\ owned[o] < MaxOwned
          /\ Become(Own(msg_send(Begin(nil), o, "retain", nil), o, 1))

\* [o release], on a reference the guest owns
GuestReleaseOwned ==
    /\ Running
    /\ \E o \in LiveObjects :
          /\ owned[o] > 0
          /\ Become(Own(msg_send(Begin(nil), o, "release", nil), o, -1))

NextErrors ==
    GuestNewForError \/ GuestInitErrorOnce \/ GuestRetainOwned \/ GuestReleaseOwned

SpecErrors == InitErrors /\ [][NextErrors]_vars

\* The references the live errors hold on x: one for each domain field and
\* one for each user info field that is x.
HeldByErrors(x) ==
    Cardinality({a \in LiveErrors : objects[a].host.domain = x})
    + Cardinality({a \in LiveErrors : objects[a].host.user_info = x})

\* The bodies of sel that the log l shows to have run on a.
BodiesOn(l, sel, a) ==
    Cardinality({i \in 1 .. Len(l) : l[i].sel = sel /\ l[i].recv = a /\ l[i].side = "-"})

\* initWithDomain:code:userInfo: on an error not initialised before sends
\* one retain for the domain and one for the user info, and nothing else.
InitRetainsOnce(a, d, u) ==
    LET r == msg_send(Env, a, "initWithDomain:code:userInfo:", <<d, 1, u>>)
    IN  /\ Ok(r)
        /\ r.ret = a
        /\ r.objects[a].host = ErrorHostObject(d, 1, u)
        /\ \A x \in LiveObjects :
              /\ BodiesOn(r.log, "retain", x) =
                    (IF x = d THEN 1 ELSE 0) + (IF x = u THEN 1 ELSE 0)
              /\ BodiesOn(r.log, "release", x) = 0
              /\ r.objects[x].refcount = objects[x].refcount + BodiesOn(r.log, "retain", x)

\* The last release of error a: its dealloc runs once and releases the
\* domain once and the user info once; an error never initialised releases
\* no object.
DeallocReleasesOnce(a) ==
    LET r == msg_send(Env, a, "release", nil)
        d == objects[a].host.domain
        u == objects[a].host.user_info
    IN  /\ Ok(r)
        /\ ~InTable(r, a)
        /\ BodiesOn(r.log, "dealloc", a) = 1
        /\ r.log[2].impl = "NSError" /\ r.log[2].sel = "dealloc"
        /\ Len(r.log) >= 3 =>
              /\ r.log[3].sel = "release"
              /\ r.log[3].recv = (IF d # nil THEN d ELSE u)
        /\ a \in Uninitialised =>
              /\ Len(r.log) = 2
              /\ \A x \in LiveObjects \ {a} : r.objects[x] = objects[x]

\* C33: an error owns its domain and its user info.  Each count is the
\* guest's own references plus one for every field of a live error that
\* holds the object, so both stay live as long as the error and are back at
\* their former counts once it is gone; initWithDomain:code:userInfo:
\* retains each once, dealloc releases each once, and the dealloc of an
\* error never initialised releases nothing.
C33_ErrorOwnsFields ==
    Running =>
        /\ \A x \in DOMAIN objects :
              IF InTable(Env, x)
              THEN objects[x].refcount = owned[x] + HeldByErrors(x)
              ELSE owned[x] = 0 /\ HeldByErrors(x) = 0
        /\ \A a \in Uninitialised, d \in Holdable, u \in Holdable : InitRetainsOnce(a, d, u)
        /\ \A a \in LiveErrors :
              (objects[a].refcount = 1 /\ owned[a] = 1) => DeallocReleasesOnce(a)

\* An error initialised with a domain and a user info is down to its last
\* reference, and the guest has given up its own references on both.
C33_Witness ==
    /\ Running
    /\ \E a \in LiveErrors :
          /\ objects[a].refcount = 1
          /\ owned[a] = 1
          /\ objects[a].host.code = 1
          /\ objects[a].host.domain \in LiveObjects \ {a}
          /\ objects[a].host.user_info \in LiveObjects \ {a, objects[a].host.domain}
          /\ owned[objects[a].host.domain] = 0
          /\ owned[objects[a].host.user_info] = 0

\* ------------------------------------------------- the instance table
\* AudioComponentInstanceNew with the allocator placing the instance at b:
\* status 0, b new in the table with the default host object, one byte
\* allocated at b, the instance stored at out, nothing else stored.
NewRegisters(b, out) ==
    LET r == AudioComponentInstanceNew(BeginAt(b), nil, out)
    IN  Ok(r) =>
          /\ r.ret = 0
          /\ b \notin DOMAIN instances
          /\ DOMAIN r.instances = DOMAIN instances \cup {b}
          /\ r.instances[b] = AudioComponentInstanceHostObject_default
          /\ ~r.instances[b].started
          /\ \A k \in DOMAIN instances : r.instances[k] = instances[k]
          /\ r.allocs = [allocs EXCEPT ![b] = Len(OpaqueAudioComponentInstance)]
          /\ read_ptr(r, out).ret = b
          /\ \A x \in MemAddr : (x # b /\ (x < out \/ x >= out + PtrSize)) =>
                r.bytes[x] = bytes[x]

\* AudioComponentInstanceDispose of the live instance k: status 0, k out of
\* the table, its allocation freed, and freed once: there is nothing left
\* for a second free.
DisposeRemoves(k) ==
    LET r == AudioComponentInstanceDispose(Env, k)
    IN  /\ Ok(r)
        /\ r.ret = 0
        /\ DOMAIN r.instances = DOMAIN instances \ {k}
        /\ \A j \in DOMAIN r.instances : r.instances[j] = instances[j]
        /\ r.allocs = [allocs EXCEPT ![k] = 0]
        /\ ~Ok(mem_free(r, k))

\* AudioComponentInstanceDispose of the null instance: status -50, nothing
\* changed.
DisposeOfNull ==
    LET r == AudioComponentInstanceDispose(Env, nil)
    IN  /\ Ok(r)
        /\ r.ret = -50
        /\ r.instances = instances
        /\ r.allocs = allocs
        /\ r.bytes = bytes

InstanceTableBacked ==
    Running =>
        /\ \A k \in DOMAIN instances :
              /\ k # nil
              /\ k \in MemAddr
              /\ allocs[k] = Len(OpaqueAudioComponentInstance)
              /\ instances[k] = AudioComponentInstanceHostObject_default
        /\ \A b \in MemAddr, out \in HeapPointers :
              CanPlace(Env, b, Len(OpaqueAudioComponentInstance)) => NewRegisters(b, out)
        /\ \A k \in DOMAIN instances : DisposeRemoves(k)
        /\ DisposeOfNull

\* A key enters the table in the step that allocates it and leaves it in the
\* step that frees it.
TableFollowsCalls ==
    \A k \in MemAddr :
        /\ k \in DOMAIN instances' \ DOMAIN instances => allocs[k] = 0 /\ allocs'[k] > 0
        /\ k \in DOMAIN instances \ DOMAIN instances' => allocs[k] > 0 /\ allocs'[k] = 0

\* C34: the keys of the instance table are the instances created and not
\* yet disposed of, each backed by one live allocation.  New returns 0,
\* stores the new instance at the out pointer and registers a default (not
\* started) host object; Dispose of a live instance returns 0, removes it
\* and frees its allocation once; Dispose of the null instance returns -50
\* and changes neither the table nor the memory.
C34_InstanceTable == []InstanceTableBacked /\ [][TableFollowsCalls]_vars

\* One instance is in the table and another has been disposed of.
C34_Witness ==
    /\ Running
    /\ DOMAIN instances # {}
    /\ disposed # nil
    /\ disposed \notin DOMAIN instances

\* --------------------------------------------------- bounded formatting
\* The sizes the guest gives for its buffer, and the arguments it packs:
\* the text is "5" or "123".
BufferSizes == 0 .. 3

BoundedArgs == {<<Word(5)>>, <<Word(123)>>}

GuestVsnprintf ==
    /\ Running
    /\ \E dest \in HeapPointers, n \in BufferSizes, args \in BoundedArgs,
          overflow_checks \in BOOLEAN :
          Commit(vsnprintf(Begin(nil), dest, n, DataBase, VaList(args), overflow_checks))

GuestSnprintf ==
    /\ Running
    /\ \E dest \in HeapPointers, n \in BufferSizes, args \in BoundedArgs,
          overflow_checks \in BOOLEAN :
          Commit(snprintf(Begin(nil), dest, n, DataBase, args, overflow_checks))

NextSnprintf == GuestMalloc \/ GuestFree \/ GuestVsnprintf \/ GuestSnprintf

SpecSnprintf == InitMem /\ [][NextSnprintf]_vars

Min(a, b) == IF a <= b THEN a ELSE b

\* r has stored the first min(len, n - 1) bytes of text and a NUL from dest
\* on, nothing else, and returns the length of text.
StoresTruncated(r, dest, n, text) ==
    /\ Ok(r)
    /\ r.ret = Len(text)
    /\ r.allocs = allocs
    /\ \A x \in MemAddr :
          r.bytes[x] = IF dest <= x /\ x < dest + Min(Len(text), n - 1) THEN text[x - dest + 1]
                       ELSE IF x = dest + Min(Len(text), n - 1) THEN 0
                       ELSE bytes[x]

\* r has stored nothing and returns the length of text.
StoresNothing(r, text) ==
    /\ Ok(r)
    /\ r.ret = Len(text)
    /\ r.allocs = allocs
    /\ r.bytes = bytes

\* C35: vsnprintf and snprintf, given n bytes at dest, store for n >= 1 the
\* first min(len, n - 1) bytes of the text and one NUL and nothing else, for
\* n = 0 store nothing and do not fail, and return len, the length of the
\* whole text, in every case.
C35_BoundedWrite ==
    Running =>
        \A dest \in HeapPointers, n \in BufferSizes, args \in BoundedArgs,
           overflow_checks \in BOOLEAN :
            LET text == printf_inner(Env, FALSE, DataBase, VaList(args)).ret
                r == vsnprintf(Env, dest, n, DataBase, VaList(args), overflow_checks)
                s == snprintf(Env, dest, n, DataBase, args, overflow_checks)
            IN  /\ (n >= 1 /\ InBounds(Env, dest, n)) =>
                      StoresTruncated(r, dest, n, text) /\ StoresTruncated(s, dest, n, text)
                /\ n = 0 => StoresNothing(r, text) /\ StoresNothing(s, text)

====
